---- MODULE Spec2Model ----
(***************************************************************************)
(* Vhisper voice pipeline (src-tauri/crates/vhisper-core).                 *)
(*                                                                         *)
(* The model follows VoicePipeline in pipeline/voice.rs: every load or     *)
(* store of a shared field that another thread can observe or disturb is   *)
(* a step of its own of the thread or task that runs it.  Statements that  *)
(* touch only locals are taken together with the step they follow or      *)
(* precede, and so are the consecutive stores at the head of a streaming   *)
(* call (terminal-stop flag, handle, recorder stop); the comment above     *)
(* each action names the source lines it covers.                           *)
(*   - ctl        the foreign caller's thread: it runs one of              *)
(*                start_recording, cancel, start_streaming,                *)
(*                stop_streaming, cancel_streaming at a time;              *)
(*   - sap[i]     a stop_and_process call spawned on the runtime           *)
(*                (ffi.rs, vhisper_stop_recording);                        *)
(*   - audio[g]   the audio-forwarding task of the g-th streaming start;   *)
(*   - mgmt[g]    the session-management task of the g-th streaming start; *)
(*   - the capture thread, the provider sessions and the external event    *)
(*     consumer are the environment.                                       *)
(***************************************************************************)
EXTENDS Integers, Sequences, FiniteSets, TLC

\* ------------------------------------------------------------------ bounds
MaxSamples == 1      \* samples the capture thread delivers in one run
MaxOps == 3          \* calls the foreign caller makes on its own thread in one run
MaxSap == 2          \* stop_and_process calls spawned in one run
MaxGen == 2          \* successful start_streaming calls in one run
MaxSess == 2         \* provider sessions opened in one run
MaxEvents == 2       \* events the provider produces in one run

\* ------------------------------------------------------- program constants
\* Amplitudes are in ten-thousandths: 0.001 is 10 and 0.05 is 500.
SilenceThreshold == 10
QuietThreshold == 500
\* tokio mpsc capacity of a session's control channel.
ControlCapacity == 32
\* 1.0, the clamp's bound, in ten-thousandths.
One == 10000
\* i16::MAX
i16_MAX == 32767

VARIABLES
  \* VoicePipeline fields
  state, cancelled, streaming_mode, should_stop, streaming_control_tx,
  \* AudioRecorder
  recState, buffer, recEpoch, nextSample, sampleEpoch,
  \* the foreign caller's thread
  ctl, ctlRet, opsLeft,
  \* stop_and_process calls
  sapPc, sapLoc, sapResult, cancelAt, sawCancel, callbacks,
  \* streaming background tasks, per start_streaming generation
  gen, audioPc, audioChunk, mgmtPc, mgmtLoc, fwd, fwdOpen,
  \* provider sessions
  nSess, pumpAlive, ctrlQ, evQ, nEvents,
  \* history
  recognized, drained, dropped, cancelledEpochs,
  \* AudioRecorder on its own: command channel, worker thread, resampler
  command_tx, commands, worker_handle, worker, recCall, recRet, resampler,
  \* the encoders and the provider factories on their own
  encIn, encOut, facIn, facOut,
  \* a session's pump on its own: its accumulated text, and the provider
  \* messages it has handled with the event it sent for each
  accumulated_text, pumpLog,
  \* the locks on their own: how far each thread is in its sequence of
  \* acquisitions and releases
  lockPc,
  \* the macOS hotkey listener on its own: its two flags, the threads and
  \* tasks it has spawned for each press, and the pipeline calls made
  is_alt_pressed, is_recording, hkThreads, hkCalls

pipeVars == <<state, cancelled, streaming_mode, should_stop, streaming_control_tx>>
recVars == <<recState, buffer, recEpoch, nextSample, sampleEpoch>>
ctlVars == <<ctl, ctlRet, opsLeft>>
sapVars == <<sapPc, sapLoc, sapResult, cancelAt, sawCancel, callbacks>>
taskVars == <<gen, audioPc, audioChunk, mgmtPc, mgmtLoc, fwd, fwdOpen>>
sessVars == <<nSess, pumpAlive, ctrlQ, evQ, nEvents>>
histVars == <<recognized, drained, dropped, cancelledEpochs>>
recUnitVars == <<command_tx, commands, worker_handle, worker, recCall, recRet, resampler>>
encVars == <<encIn, encOut>>
facVars == <<facIn, facOut>>
unitVars ==
  <<recUnitVars, encVars, facVars, accumulated_text, pumpLog, lockPc,
    is_alt_pressed, is_recording, hkThreads, hkCalls>>
vars == <<pipeVars, recVars, ctlVars, sapVars, taskVars, sessVars, histVars, unitVars>>

Saps == 1..MaxSap
Gens == 1..MaxGen
Sessions == 1..MaxSess

\* PipelineState
PipelineState == {"Idle", "Recording", "Processing"}

\* ------------------------------------------------------------ configuration
\* Provider identifiers the factories know.
AsrProviders == {"Qwen", "DashScope", "OpenAIWhisper", "FunAsr"}
LlmProviders == {"DashScope", "OpenAI", "Ollama"}

\* AsrConfig: the provider string and, for each provider, whether its own
\* section (an Option) is present.
AsrConfig(provider, sections) ==
  [provider |-> provider,
   dashscope |-> "DashScope" \in sections,
   qwen |-> "Qwen" \in sections,
   openai |-> "OpenAIWhisper" \in sections,
   funasr |-> "FunAsr" \in sections]

\* LlmConfig: the enabled switch, the provider string and the sections.
LlmConfig(enabled, provider, sections) ==
  [enabled |-> enabled,
   provider |-> provider,
   dashscope |-> "DashScope" \in sections,
   openai |-> "OpenAI" \in sections,
   ollama |-> "Ollama" \in sections]

\* The configurations the host installs (vhisper_create, vhisper_update_config).
\* The first is AppConfig::default().
AppConfigs ==
  { [asr |-> AsrConfig("Qwen", {}), llm |-> LlmConfig(TRUE, "DashScope", {})],
    [asr |-> AsrConfig("Qwen", {"Qwen"}),
     llm |-> LlmConfig(TRUE, "DashScope", {"DashScope"})],
    [asr |-> AsrConfig("OpenAIWhisper", {"OpenAIWhisper"}),
     llm |-> LlmConfig(FALSE, "OpenAI", {"OpenAI"})],
    [asr |-> AsrConfig("Unknown", AsrProviders),
     llm |-> LlmConfig(TRUE, "Unknown", LlmProviders)] }

NoConfig == [asr |-> AsrConfig("", {}), llm |-> LlmConfig(FALSE, "", {})]

\* create_asr_service: the client constructed, or the Config error
create_asr_service(config) ==
  CASE config.provider = "Qwen" -> IF config.qwen THEN "QwenAsr" ELSE "Config"
    [] config.provider = "DashScope" ->
         IF config.dashscope THEN "DashScopeAsr" ELSE "Config"
    [] config.provider = "OpenAIWhisper" ->
         IF config.openai THEN "OpenAiWhisper" ELSE "Config"
    [] config.provider = "FunAsr" -> IF config.funasr THEN "FunAsr" ELSE "Config"
    [] OTHER -> "Config"

\* create_streaming_asr_service: only Qwen supports streaming
create_streaming_asr_service(config) ==
  CASE config.provider = "Qwen" ->
         IF config.qwen THEN "QwenRealtimeAsr" ELSE "Config"
    [] OTHER -> "Config"

\* create_llm_service with the provider's section not looked at.
create_llm_service_unchecked(config) ==
  IF ~config.enabled THEN "None"
  ELSE CASE config.provider = "DashScope" -> "DashScopeLlm"
         [] config.provider = "OpenAI" -> "OpenAiLlm"
         [] config.provider = "Ollama" -> "OllamaLlm"
         [] OTHER -> "Config"

\* create_llm_service: Ok(None) when disabled, else the client constructed
\* or the Config error
create_llm_service(config) ==
  IF ~config.enabled THEN "None"
  ELSE CASE config.provider = "DashScope" ->
              IF config.dashscope THEN "DashScopeLlm" ELSE "Config"
         [] config.provider = "OpenAI" ->
              IF config.openai THEN "OpenAiLlm" ELSE "Config"
         [] config.provider = "Ollama" ->
              IF config.ollama THEN "OllamaLlm" ELSE "Config"
         [] OTHER -> "Config"

\* ---------------------------------------------------------------- recorder
\* The worker thread: not spawned.
WorkerNone == [pc |-> "none", err |-> "none"]

\* No call of start() or stop() is in progress.
RecCallIdle == [pc |-> "idle", n |-> 0]

\* The resampler of run_recording_loop before the stream is built: the
\* accumulator is 0.0 (182).  rate is <<source, target>> in units of a
\* common divisor; acc.num is the exact value of the accumulator in units
\* of 1/source, acc.err the sign of the rounding error of the f64 that
\* holds it.
ResamplerInit ==
  [rate |-> <<1, 1>>, acc |-> [num |-> 0, err |-> 0], frames |-> 0, emitted |-> 0]

\* Nothing encoded yet; nothing produced by a factory yet.
NoOutput == [pcm |-> <<>>, wav |-> <<>>, called |-> {}]

NoProduct == [asr |-> "not called", streaming |-> "not called", llm |-> "not called"]

\* AudioRecorder::start: a no-op when already recording; else it clears the
\* buffer, spawns the worker and sets Recording.  It always returns Ok.
recorder_start ==
  IF recState = "Recording"
  THEN UNCHANGED <<recState, buffer, recEpoch>>
  ELSE /\ buffer' = <<>>
       /\ recEpoch' = recEpoch + 1
       /\ recState' = "Recording"

\* The value AudioRecorder::stop returns: empty when not recording, else a
\* clone of the buffer (the buffer itself is left as it is).
recorder_stop_data == IF recState # "Recording" THEN <<>> ELSE buffer

\* AudioRecorder::stop: the worker is told to stop and joined; it always
\* returns Ok.
recorder_stop == recState' = "Idle"

\* The recorder's RwLock is write-held across several steps only by the
\* caller's thread: start_recording holds it from recorder.start() to its
\* return, cancel from recorder.stop() to its return.
recorder_write_locked == ctl.pc \in {"r_store", "c_idle", "c_clear"}

\* The input stream's callback: one resampled sample is pushed.
Capture ==
  /\ recState = "Recording"
  /\ nextSample <= MaxSamples
  /\ buffer' = Append(buffer, nextSample)
  /\ sampleEpoch' = Append(sampleEpoch, recEpoch)
  /\ nextSample' = nextSample + 1
  /\ UNCHANGED <<recState, recEpoch>>
  /\ UNCHANGED <<pipeVars, ctlVars, sapVars, taskVars, sessVars, histVars>>
  /\ UNCHANGED unitVars

\* -------------------------------------------------------------- the caller
CtlIdle == [pc |-> "idle", sess |-> 0]

\* The caller's thread is free and may make one more call.
CanCall == ctl.pc = "idle" /\ opsLeft > 0

\* Return of a call of the caller's thread.
Return(op, res) ==
  /\ ctl' = CtlIdle
  /\ ctlRet' = [op |-> op, res |-> res, sess |-> ctl.sess]

Goto(pc) == ctl' = [ctl EXCEPT !.pc = pc]

\* A faulty start_recording: only a recording in progress is busy.
start_recording_check_recording_only ==
  /\ CanCall
  /\ opsLeft' = opsLeft - 1
  /\ IF state = "Recording"
     THEN Return("start_recording", "Busy")
     ELSE Goto("r_reset") /\ UNCHANGED ctlRet
  /\ UNCHANGED <<pipeVars, recVars, sapVars, taskVars, sessVars, histVars>>
  /\ UNCHANGED unitVars

\* ---- start_recording (voice.rs 129-147)
\* 131-135: load the state; busy unless Idle
start_recording_check ==
  /\ CanCall
  /\ opsLeft' = opsLeft - 1
  /\ IF state # "Idle"
     THEN Return("start_recording", "Busy")
     ELSE Goto("r_reset") /\ UNCHANGED ctlRet
  /\ UNCHANGED <<pipeVars, recVars, sapVars, taskVars, sessVars, histVars>>
  /\ UNCHANGED unitVars

\* 138: reset the cancellation flag
start_recording_reset ==
  /\ ctl.pc = "r_reset"
  /\ cancelled' = FALSE
  /\ Goto("r_start")
  /\ UNCHANGED <<state, streaming_mode, should_stop, streaming_control_tx>>
  /\ UNCHANGED <<ctlRet, opsLeft, recVars, sapVars, taskVars, sessVars, histVars>>
  /\ UNCHANGED unitVars

\* 140-143: take the recorder's write lock, recorder.start()
start_recording_start ==
  /\ ctl.pc = "r_start"
  /\ recorder_start
  /\ Goto("r_store")
  /\ UNCHANGED <<nextSample, sampleEpoch>>
  /\ UNCHANGED <<pipeVars, ctlRet, opsLeft, sapVars, taskVars, sessVars, histVars>>
  /\ UNCHANGED unitVars

\* 145-146: store Recording, return Ok (the lock is released)
start_recording_store ==
  /\ ctl.pc = "r_store"
  /\ state' = "Recording"
  /\ Return("start_recording", "Ok")
  /\ UNCHANGED <<cancelled, streaming_mode, should_stop, streaming_control_tx>>
  /\ UNCHANGED <<opsLeft, recVars, sapVars, taskVars, sessVars, histVars>>
  /\ UNCHANGED unitVars

\* ---- cancel (voice.rs 99-126)
\* The stop_and_process calls that are past their transition to Processing
\* and have not returned.
InFlight(i) ==
  sapPc[i] \in {"stop", "chk1", "empty", "gate", "encode", "chk2", "factory",
                "asr", "chk3", "llm", "refine", "finish"}

\* 100-106, 119-124: load the state; Idle returns, Processing marks the flag
cancel_load ==
  /\ CanCall
  /\ opsLeft' = opsLeft - 1
  /\ CASE state = "Idle" ->
            /\ Return("cancel", "Idle")
            /\ UNCHANGED <<cancelled, cancelAt, sawCancel, cancelledEpochs>>
       [] state = "Recording" ->
            /\ Goto("c_set")
            /\ cancelledEpochs' = cancelledEpochs \cup {recEpoch}
            /\ UNCHANGED <<ctlRet, cancelled, cancelAt, sawCancel>>
       [] state = "Processing" ->
            /\ cancelled' = TRUE
            /\ Return("cancel", "Processing")
            /\ cancelAt' = [i \in Saps |->
                 IF InFlight(i) /\ cancelAt[i] = "none" THEN sapPc[i] ELSE cancelAt[i]]
            /\ UNCHANGED cancelledEpochs
  /\ UNCHANGED <<state, streaming_mode, should_stop, streaming_control_tx>>
  /\ UNCHANGED <<recVars, sapPc, sapLoc, sapResult, sawCancel, callbacks, taskVars, sessVars>>
  /\ UNCHANGED <<recognized, drained, dropped>>
  /\ UNCHANGED unitVars

\* 109: set the cancellation flag
cancel_set ==
  /\ ctl.pc = "c_set"
  /\ cancelled' = TRUE
  /\ Goto("c_stop")
  /\ UNCHANGED <<state, streaming_mode, should_stop, streaming_control_tx>>
  /\ UNCHANGED <<ctlRet, opsLeft, recVars, sapVars, taskVars, sessVars, histVars>>
  /\ UNCHANGED unitVars

\* 110-113: take the recorder's write lock, recorder.stop(), drop the data
cancel_stop ==
  /\ ctl.pc = "c_stop"
  /\ recorder_stop
  /\ Goto("c_idle")
  /\ UNCHANGED <<buffer, recEpoch, nextSample, sampleEpoch>>
  /\ UNCHANGED <<pipeVars, ctlRet, opsLeft, sapVars, taskVars, sessVars, histVars>>
  /\ UNCHANGED unitVars

\* 114: store Idle
cancel_idle ==
  /\ ctl.pc = "c_idle"
  /\ state' = "Idle"
  /\ Goto("c_clear")
  /\ UNCHANGED <<cancelled, streaming_mode, should_stop, streaming_control_tx>>
  /\ UNCHANGED <<ctlRet, opsLeft, recVars, sapVars, taskVars, sessVars, histVars>>
  /\ UNCHANGED unitVars

\* 115-117: clear the cancellation flag, return Ok (the lock is released)
cancel_clear ==
  /\ ctl.pc = "c_clear"
  /\ cancelled' = FALSE
  /\ Return("cancel", "Recording")
  /\ UNCHANGED <<state, streaming_mode, should_stop, streaming_control_tx>>
  /\ UNCHANGED <<opsLeft, recVars, sapVars, taskVars, sessVars, histVars>>
  /\ UNCHANGED unitVars

\* ------------------------------------------------------- stop_and_process
\* voice.rs 154-298, one call per spawned task (ffi.rs 213-229)
SapLocInit == [samples |-> <<>>, amps |-> <<>>, cfg |-> NoConfig, text |-> ""]

\* Where a call found the cancellation flag set, and the state at that load.
NotSeen == [at |-> "none", state |-> "none"]

\* The values a captured sample may have, in ten-thousandths: silence,
\* 0.0005, the two thresholds and their neighbours, 0.02 and 0.3 of either
\* sign.
Amplitudes == {-3000, -200, 0, 5, 10, 200, 499, 500, 3000}

\* s.abs()
abs(s) == IF s < 0 THEN 0 - s ELSE s

\* f32::max
f32_max(a, b) == IF a < b THEN b ELSE a

\* 205, with the sign dropped: the largest sample, not the largest
\* magnitude.
RECURSIVE max_amplitude_signed(_)
max_amplitude_signed(samples) ==
  IF samples = <<>> THEN 0
  ELSE f32_max(max_amplitude_signed(SubSeq(samples, 1, Len(samples) - 1)),
               samples[Len(samples)])

\* 205: samples.iter().map(|s| s.abs()).fold(0.0f32, f32::max)
RECURSIVE max_amplitude(_)
max_amplitude(samples) ==
  IF samples = <<>> THEN 0
  ELSE f32_max(max_amplitude(SubSeq(samples, 1, Len(samples) - 1)),
               abs(samples[Len(samples)]))

SapGoto(i, pc) == sapPc' = [sapPc EXCEPT ![i] = pc] /\ UNCHANGED callbacks

\* The results that are Ok(text).
OkResults == {"OkEmpty", "OkText", "OkRefined"}

\* A C string pointer: <<>> is ptr::null(), <<s>> points to s.
null == <<>>

\* A faulty callback invocation: an error comes with an empty text instead
\* of a null one.
result_callback_with_text(res) ==
  IF res \in OkResults
  THEN [text |-> <<IF res = "OkEmpty" THEN "" ELSE res>>, error |-> null]
  ELSE [text |-> <<"">>, error |-> <<res>>]

\* ffi.rs 219-228: the arguments vhisper_stop_recording's task gives the
\* callback for a result of stop_and_process
result_callback(res) ==
  IF res \in OkResults
  THEN [text |-> <<IF res = "OkEmpty" THEN "" ELSE res>>, error |-> null]
  ELSE [text |-> null, error |-> <<res>>]

\* stop_and_process returns res to the spawned task (ffi.rs 214), which
\* invokes the callback with it
SapReturn(i, res) ==
  /\ sapPc' = [sapPc EXCEPT ![i] = "done"]
  /\ sapResult' = [sapResult EXCEPT ![i] = res]
  /\ sapLoc' = [sapLoc EXCEPT ![i] = SapLocInit]
  /\ callbacks' = [callbacks EXCEPT ![i] = Append(@, result_callback(res))]

\* ffi.rs 198-232: vhisper_stop_recording spawns the call and returns
sap_spawn(i) ==
  /\ ctl.pc = "idle"
  /\ sapPc[i] = "idle"
  /\ \A j \in Saps : j < i => sapPc[j] # "idle"
  /\ SapGoto(i, "check0")
  /\ UNCHANGED <<ctlVars, sapLoc, sapResult, cancelAt, sawCancel>>
  /\ UNCHANGED <<pipeVars, recVars, taskVars, sessVars, histVars>>
  /\ UNCHANGED unitVars

\* A cancellation checkpoint: the load of the flag.  A set flag leads to
\* the two stores of the unwinding, a clear one to the next statement.
Checkpoint(i, at, next) ==
  /\ sapPc[i] = at
  /\ SapGoto(i, IF cancelled THEN "unwind" ELSE next)
  /\ sawCancel' = IF cancelled
                  THEN [sawCancel EXCEPT ![i] = [at |-> at, state |-> state]]
                  ELSE sawCancel
  /\ UNCHANGED <<sapLoc, sapResult, cancelAt>>
  /\ UNCHANGED <<pipeVars, recVars, ctlVars, taskVars, sessVars, histVars>>
  /\ UNCHANGED unitVars

sap_check0(i) == Checkpoint(i, "check0", "state")     \* 156
sap_chk1(i) == Checkpoint(i, "chk1", "empty")         \* 182
sap_chk2(i) == Checkpoint(i, "chk2", "factory")       \* 252
sap_chk3(i) == Checkpoint(i, "chk3", "llm")           \* 271

\* 157, 183, 253, 272: store Idle
sap_unwind_idle(i) ==
  /\ sapPc[i] = "unwind"
  /\ state' = "Idle"
  /\ SapGoto(i, "unwind2")
  /\ UNCHANGED <<cancelled, streaming_mode, should_stop, streaming_control_tx>>
  /\ UNCHANGED <<sapLoc, sapResult, cancelAt, sawCancel>>
  /\ UNCHANGED <<recVars, ctlVars, taskVars, sessVars, histVars>>
  /\ UNCHANGED unitVars

\* A faulty unwinding: Cancelled is returned with the flag left set.
sap_unwind_keep(i) ==
  /\ sapPc[i] = "unwind2"
  /\ SapReturn(i, "Cancelled")
  /\ UNCHANGED <<pipeVars, cancelAt, sawCancel, recVars, ctlVars, taskVars, sessVars, histVars>>
  /\ UNCHANGED unitVars

\* 158-159, 184-185, 254-255, 273-274: clear the flag, return Cancelled
sap_unwind_clear(i) ==
  /\ sapPc[i] = "unwind2"
  /\ cancelled' = FALSE
  /\ SapReturn(i, "Cancelled")
  /\ UNCHANGED <<state, streaming_mode, should_stop, streaming_control_tx>>
  /\ UNCHANGED <<cancelAt, sawCancel, recVars, ctlVars, taskVars, sessVars, histVars>>
  /\ UNCHANGED unitVars

\* A faulty idempotence check: only Idle returns at once.
sap_state_idle_only(i) ==
  /\ sapPc[i] = "state"
  /\ IF state = "Idle"
     THEN SapReturn(i, "OkEmpty")
     ELSE SapGoto(i, "toProc") /\ UNCHANGED <<sapLoc, sapResult>>
  /\ UNCHANGED <<cancelAt, sawCancel, pipeVars, recVars, ctlVars, taskVars, sessVars, histVars>>
  /\ UNCHANGED unitVars

\* 163-167: the idempotence check
sap_state(i) ==
  /\ sapPc[i] = "state"
  /\ IF state # "Recording"
     THEN SapReturn(i, "OkEmpty")
     ELSE SapGoto(i, "toProc") /\ UNCHANGED <<sapLoc, sapResult>>
  /\ UNCHANGED <<cancelAt, sawCancel, pipeVars, recVars, ctlVars, taskVars, sessVars, histVars>>
  /\ UNCHANGED unitVars

\* 170: store Processing
sap_processing(i) ==
  /\ sapPc[i] = "toProc"
  /\ state' = "Processing"
  /\ SapGoto(i, "stop")
  /\ UNCHANGED <<cancelled, streaming_mode, should_stop, streaming_control_tx>>
  /\ UNCHANGED <<sapLoc, sapResult, cancelAt, sawCancel>>
  /\ UNCHANGED <<recVars, ctlVars, taskVars, sessVars, histVars>>
  /\ UNCHANGED unitVars

\* 173-179: recorder.stop() under the recorder's write lock
sap_stop(i) ==
  /\ sapPc[i] = "stop"
  /\ ~recorder_write_locked
  /\ sapLoc' = [sapLoc EXCEPT ![i].samples = recorder_stop_data]
  /\ recorder_stop
  /\ SapGoto(i, "chk1")
  /\ UNCHANGED <<buffer, recEpoch, nextSample, sampleEpoch>>
  /\ UNCHANGED <<sapResult, cancelAt, sawCancel, pipeVars, ctlVars, taskVars, sessVars, histVars>>
  /\ UNCHANGED unitVars

\* 188-200: nothing recorded returns the empty text; else the configuration
\* is read (whatever the host has installed by now).  The samples collected
\* have whatever values the microphone gave them.
sap_empty(i) ==
  /\ sapPc[i] = "empty"
  /\ IF sapLoc[i].samples = <<>>
     THEN /\ state' = "Idle"
          /\ SapReturn(i, "OkEmpty")
     ELSE /\ \E c \in AppConfigs, a \in [DOMAIN sapLoc[i].samples -> Amplitudes] :
               sapLoc' = [sapLoc EXCEPT ![i].cfg = c, ![i].amps = a]
          /\ SapGoto(i, "gate")
          /\ UNCHANGED <<state, sapResult>>
  /\ UNCHANGED <<cancelled, streaming_mode, should_stop, streaming_control_tx>>
  /\ UNCHANGED <<cancelAt, sawCancel, recVars, ctlVars, taskVars, sessVars, histVars>>
  /\ UNCHANGED unitVars

\* 205-232: the amplitude gate
sap_gate(i) ==
  /\ sapPc[i] = "gate"
  /\ IF max_amplitude(sapLoc[i].amps) < SilenceThreshold
     THEN state' = "Idle" /\ SapReturn(i, "ErrSilent")
     ELSE IF max_amplitude(sapLoc[i].amps) < QuietThreshold
     THEN state' = "Idle" /\ SapReturn(i, "ErrQuiet")
     ELSE /\ SapGoto(i, "encode")
          /\ UNCHANGED <<state, sapLoc, sapResult>>
  /\ UNCHANGED <<cancelled, streaming_mode, should_stop, streaming_control_tx>>
  /\ UNCHANGED <<cancelAt, sawCancel, recVars, ctlVars, taskVars, sessVars, histVars>>
  /\ UNCHANGED unitVars

\* 237-249: encode_to_wav for OpenAIWhisper, encode_to_pcm otherwise
sap_encode(i) ==
  /\ sapPc[i] = "encode"
  /\ SapGoto(i, "chk2")
  /\ UNCHANGED <<sapLoc, sapResult, cancelAt, sawCancel>>
  /\ UNCHANGED <<pipeVars, recVars, ctlVars, taskVars, sessVars, histVars>>
  /\ UNCHANGED unitVars

\* 259-260: create_asr_service(&config.asr)?, then recognize is called with
\* the encoded samples
sap_factory(i) ==
  /\ sapPc[i] = "factory"
  /\ IF create_asr_service(sapLoc[i].cfg.asr) = "Config"
     THEN /\ SapReturn(i, "ErrConfig")
          /\ UNCHANGED recognized
     ELSE /\ recognized' = recognized \cup {sapLoc[i].samples[k] : k \in DOMAIN sapLoc[i].samples}
          /\ sapLoc' = [sapLoc EXCEPT ![i].samples = <<>>, ![i].amps = <<>>]
          /\ SapGoto(i, "asr")
          /\ UNCHANGED sapResult
  /\ UNCHANGED <<drained, dropped, cancelledEpochs>>
  /\ UNCHANGED <<cancelAt, sawCancel, pipeVars, recVars, ctlVars, taskVars, sessVars>>
  /\ UNCHANGED unitVars

\* 260-266: recognize returns
sap_asr(i) ==
  /\ sapPc[i] = "asr"
  /\ \/ \E t \in {"", "t"} :
          /\ sapLoc' = [sapLoc EXCEPT ![i].text = t]
          /\ SapGoto(i, "chk3")
          /\ UNCHANGED <<state, sapResult>>
     \/ /\ state' = "Idle"
        /\ SapReturn(i, "ErrAsr")
  /\ UNCHANGED <<cancelled, streaming_mode, should_stop, streaming_control_tx>>
  /\ UNCHANGED <<cancelAt, sawCancel, recVars, ctlVars, taskVars, sessVars, histVars>>
  /\ UNCHANGED unitVars

\* 277-281: refinement is attempted only when enabled, the text is not
\* empty and the factory yields a service
sap_llm(i) ==
  /\ sapPc[i] = "llm"
  /\ IF /\ sapLoc[i].cfg.llm.enabled
        /\ sapLoc[i].text # ""
        /\ create_llm_service(sapLoc[i].cfg.llm) \notin {"None", "Config"}
     THEN SapGoto(i, "refine")
     ELSE SapGoto(i, "finish")
  /\ sapLoc' = [sapLoc EXCEPT ![i].cfg = NoConfig]
  /\ UNCHANGED <<sapResult, cancelAt, sawCancel>>
  /\ UNCHANGED <<pipeVars, recVars, ctlVars, taskVars, sessVars, histVars>>
  /\ UNCHANGED unitVars

\* A faulty refinement step: a failure of refine_text loses the text.
sap_refine_failing(i) ==
  /\ sapPc[i] = "refine"
  /\ \E refined \in {"r", ""} :
       sapLoc' = [sapLoc EXCEPT ![i].text = refined]
  /\ SapGoto(i, "finish")
  /\ UNCHANGED <<sapResult, cancelAt, sawCancel>>
  /\ UNCHANGED <<pipeVars, recVars, ctlVars, taskVars, sessVars, histVars>>
  /\ UNCHANGED unitVars

\* 282-290: refine_text returns; a failure keeps the original text
sap_refine(i) ==
  /\ sapPc[i] = "refine"
  /\ \E refined \in {"r", sapLoc[i].text} :
       sapLoc' = [sapLoc EXCEPT ![i].text = refined]
  /\ SapGoto(i, "finish")
  /\ UNCHANGED <<sapResult, cancelAt, sawCancel>>
  /\ UNCHANGED <<pipeVars, recVars, ctlVars, taskVars, sessVars, histVars>>
  /\ UNCHANGED unitVars

\* The result of a successful return, by the text it carries.
OkResult(text) ==
  IF text = "" THEN "OkEmpty" ELSE IF text = "r" THEN "OkRefined" ELSE "OkText"

\* 295-297: store Idle, return the text
sap_finish(i) ==
  /\ sapPc[i] = "finish"
  /\ state' = "Idle"
  /\ SapReturn(i, OkResult(sapLoc[i].text))
  /\ UNCHANGED <<cancelled, streaming_mode, should_stop, streaming_control_tx>>
  /\ UNCHANGED <<cancelAt, sawCancel, recVars, ctlVars, taskVars, sessVars, histVars>>
  /\ UNCHANGED unitVars

stop_and_process(i) ==
  \/ sap_check0(i) \/ sap_state(i) \/ sap_processing(i) \/ sap_stop(i)
  \/ sap_chk1(i) \/ sap_empty(i) \/ sap_gate(i) \/ sap_encode(i)
  \/ sap_chk2(i) \/ sap_factory(i) \/ sap_asr(i) \/ sap_chk3(i)
  \/ sap_llm(i) \/ sap_refine(i) \/ sap_finish(i)
  \/ sap_unwind_idle(i) \/ sap_unwind_clear(i)

\* --------------------------------------------------------- provider session
\* A session (qwen_realtime.rs, start_streaming) is a control channel, an
\* event channel and the pump between them.  ctrlQ[s] is everything accepted
\* by the control channel of session s, in order; evQ[s] the events the pump
\* has sent and the session-management task has not yet received.
Audio(chunk) == [t |-> "Audio", data |-> chunk]
Commit == [t |-> "Commit", data |-> <<>>]
CancelMsg == [t |-> "Cancel", data |-> <<>>]

\* mpsc::Sender::send: it fails when the pump has dropped the receiver and
\* waits while the channel is full.
CanSend(s) == ~pumpAlive[s] \/ Len(ctrlQ[s]) < ControlCapacity

Send(s, msg) ==
  ctrlQ' = IF pumpAlive[s] THEN [ctrlQ EXCEPT ![s] = Append(@, msg)] ELSE ctrlQ

\* The session's events are being received: a management task waits on its
\* event channel (451).
EventsRead(s) == \E g \in Gens : mgmtPc[g] = "recv" /\ mgmtLoc[g].cur = s

\* The session's control sender is in use: it is the published handle, or
\* stop_streaming holds it under the handle's read lock.
SenderHeld(s) ==
  \/ streaming_control_tx = s
  \/ ctl.pc = "p_commit" /\ ctl.sess = s

\* qwen_realtime.rs 261-319: the pump forwards a provider message as an
\* event; after an Error it ends, after a Partial or a Final it goes on.
\* Events nobody receives are left out.
provider_event(s, e) ==
  /\ pumpAlive[s]
  /\ EventsRead(s)
  /\ nEvents < MaxEvents
  /\ nEvents' = nEvents + 1
  /\ evQ' = [evQ EXCEPT ![s] = Append(@, e)]
  /\ pumpAlive' = [pumpAlive EXCEPT ![s] = (e # "Error")]
  /\ UNCHANGED <<nSess, ctrlQ>>
  /\ UNCHANGED <<pipeVars, recVars, ctlVars, sapVars, taskVars, histVars>>
  /\ UNCHANGED unitVars

\* qwen_realtime.rs 253-257, 308-310, 320: the pump ends (a Cancel was
\* taken from the control channel, or the connection closed); both channels
\* close.  The end of a pump nobody sends to or receives from is left out.
pump_exit(s) ==
  /\ pumpAlive[s]
  /\ EventsRead(s) \/ SenderHeld(s)
  /\ pumpAlive' = [pumpAlive EXCEPT ![s] = FALSE]
  /\ UNCHANGED <<nSess, ctrlQ, evQ, nEvents>>
  /\ UNCHANGED <<pipeVars, recVars, ctlVars, sapVars, taskVars, histVars>>
  /\ UNCHANGED unitVars

\* The session just opened by StreamingAsrService::start_streaming.
NewSession == nSess + 1

OpenSession ==
  /\ nSess < MaxSess
  /\ nSess' = NewSession
  /\ pumpAlive' = [pumpAlive EXCEPT ![NewSession] = TRUE]
  /\ UNCHANGED <<ctrlQ, evQ, nEvents>>

\* AudioRecorder::drain_buffer: the buffer is taken and left empty, capture
\* goes on.
drain_buffer == buffer' = <<>>

\* stop_streaming holds the read lock of streaming_control_tx from 553 to 569.
control_tx_read_locked == ctl.pc = "p_commit"

Elems(seq) == {seq[k] : k \in DOMAIN seq}

\* --------------------------------------------------------- start_streaming
\* voice.rs 338-528
\* 340-354: the terminal-stop flag is set for any prior session, the handle
\* is cleared (streaming_task_cancelled is never Some), capture is stopped;
\* then the 20 ms sleep
start_streaming_teardown ==
  /\ CanCall
  /\ gen < MaxGen
  /\ opsLeft' = opsLeft - 1
  /\ should_stop' = TRUE
  /\ streaming_control_tx' = 0
  /\ recorder_stop
  /\ Goto("t_check")
  /\ UNCHANGED <<state, cancelled, streaming_mode>>
  /\ UNCHANGED <<buffer, recEpoch, nextSample, sampleEpoch>>
  /\ UNCHANGED <<ctlRet, sapVars, taskVars, sessVars, histVars>>
  /\ UNCHANGED unitVars

\* 357-360: busy unless Idle
start_streaming_check ==
  /\ ctl.pc = "t_check"
  /\ IF state # "Idle"
     THEN Return("start_streaming", "Busy")
     ELSE Goto("t_reset") /\ UNCHANGED ctlRet
  /\ UNCHANGED <<pipeVars, opsLeft, recVars, sapVars, taskVars, sessVars, histVars>>
  /\ UNCHANGED unitVars

\* 363-364: reset the terminal-stop flag and the cancellation flag
start_streaming_reset ==
  /\ ctl.pc = "t_reset"
  /\ should_stop' = FALSE
  /\ cancelled' = FALSE
  /\ Goto("t_open")
  /\ UNCHANGED <<state, streaming_mode, streaming_control_tx>>
  /\ UNCHANGED <<ctlRet, opsLeft, recVars, sapVars, taskVars, sessVars, histVars>>
  /\ UNCHANGED unitVars

\* 365-378: set the streaming-mode flag, read the configuration,
\* create_streaming_asr_service(&config.asr)?, then
\* streaming_service.start_streaming(sample_rate).await?
start_streaming_open ==
  /\ ctl.pc = "t_open"
  /\ streaming_mode' = TRUE
  /\ \E c \in AppConfigs :
       IF create_streaming_asr_service(c.asr) = "Config"
       THEN /\ Return("start_streaming", "ErrConfig")
            /\ UNCHANGED sessVars
       ELSE \/ /\ OpenSession
               /\ ctl' = [ctl EXCEPT !.pc = "t_publish", !.sess = NewSession]
               /\ UNCHANGED ctlRet
            \/ /\ Return("start_streaming", "ErrAsr")
               /\ UNCHANGED sessVars
  /\ UNCHANGED <<state, cancelled, should_stop, streaming_control_tx>>
  /\ UNCHANGED <<opsLeft, recVars, sapVars, taskVars, histVars>>
  /\ UNCHANGED unitVars

\* 381-384: publish the control sender
start_streaming_publish ==
  /\ ctl.pc = "t_publish"
  /\ streaming_control_tx' = ctl.sess
  /\ Goto("t_recstart")
  /\ UNCHANGED <<state, cancelled, streaming_mode, should_stop>>
  /\ UNCHANGED <<ctlRet, opsLeft, recVars, sapVars, taskVars, sessVars, histVars>>
  /\ UNCHANGED unitVars

\* 387-392: recorder.start()
start_streaming_recstart ==
  /\ ctl.pc = "t_recstart"
  /\ recorder_start
  /\ Goto("t_store")
  /\ UNCHANGED <<nextSample, sampleEpoch>>
  /\ UNCHANGED <<pipeVars, ctlRet, opsLeft, sapVars, taskVars, sessVars, histVars>>
  /\ UNCHANGED unitVars

\* 394: store Recording
start_streaming_store ==
  /\ ctl.pc = "t_store"
  /\ state' = "Recording"
  /\ Goto("t_spawn")
  /\ UNCHANGED <<cancelled, streaming_mode, should_stop, streaming_control_tx>>
  /\ UNCHANGED <<ctlRet, opsLeft, recVars, sapVars, taskVars, sessVars, histVars>>
  /\ UNCHANGED unitVars

\* 397-527: the forward channel is created, both tasks are spawned, and the
\* receiver is returned
start_streaming_spawn ==
  /\ ctl.pc = "t_spawn"
  /\ gen' = gen + 1
  /\ audioPc' = [audioPc EXCEPT ![gen + 1] = "check"]
  /\ mgmtPc' = [mgmtPc EXCEPT ![gen + 1] = "recv"]
  /\ mgmtLoc' = [mgmtLoc EXCEPT ![gen + 1].cur = ctl.sess]
  /\ fwdOpen' = [fwdOpen EXCEPT ![gen + 1] = TRUE]
  /\ Return("start_streaming", "Ok")
  /\ UNCHANGED <<audioChunk, fwd>>
  /\ UNCHANGED <<pipeVars, opsLeft, recVars, sapVars, sessVars, histVars>>
  /\ UNCHANGED unitVars

\* 527: the receiver of the forward channel belongs to the caller of
\* start_streaming, who may drop it at any time.  Nothing but the task's
\* next send (456) notices, so the drop is taken when an event is waiting
\* to be forwarded.
forward_rx_drop(g) ==
  /\ fwdOpen[g]
  /\ mgmtPc[g] = "recv"
  /\ evQ[mgmtLoc[g].cur] # <<>>
  /\ fwdOpen' = [fwdOpen EXCEPT ![g] = FALSE]
  /\ UNCHANGED <<gen, audioPc, audioChunk, mgmtPc, mgmtLoc, fwd>>
  /\ UNCHANGED <<pipeVars, recVars, ctlVars, sapVars, sessVars, histVars>>
  /\ UNCHANGED unitVars

\* ------------------------------------------------- audio-forwarding task
\* voice.rs 405-435
\* 410-413: leave when the terminal-stop flag is set
audio_check(g) ==
  /\ audioPc[g] = "check"
  /\ audioPc' = [audioPc EXCEPT ![g] = IF should_stop THEN "done" ELSE "drain"]
  /\ UNCHANGED <<gen, audioChunk, mgmtPc, mgmtLoc, fwd, fwdOpen>>
  /\ UNCHANGED <<pipeVars, recVars, ctlVars, sapVars, sessVars, histVars>>
  /\ UNCHANGED unitVars

\* A faulty drain: the buffer is copied and left as it is.
audio_drain_copy(g) ==
  /\ audioPc[g] = "drain"
  /\ ~recorder_write_locked
  /\ audioChunk' = [audioChunk EXCEPT ![g] = buffer]
  /\ drained' = drained \cup Elems(buffer)
  /\ audioPc' = [audioPc EXCEPT ![g] = IF buffer = <<>> THEN "check" ELSE "send"]
  /\ UNCHANGED <<recVars, gen, mgmtPc, mgmtLoc, fwd, fwdOpen>>
  /\ UNCHANGED <<recognized, dropped, cancelledEpochs>>
  /\ UNCHANGED <<pipeVars, ctlVars, sapVars, sessVars>>
  /\ UNCHANGED unitVars

\* 416-422: drain the capture buffer under the recorder's read lock; an
\* empty chunk is not sent (425) and the task sleeps 50 ms (433)
audio_drain(g) ==
  /\ audioPc[g] = "drain"
  /\ ~recorder_write_locked
  /\ audioChunk' = [audioChunk EXCEPT ![g] = buffer]
  /\ drain_buffer
  /\ drained' = drained \cup Elems(buffer)
  /\ audioPc' = [audioPc EXCEPT ![g] = IF buffer = <<>> THEN "check" ELSE "send"]
  /\ UNCHANGED <<recState, recEpoch, nextSample, sampleEpoch>>
  /\ UNCHANGED <<gen, mgmtPc, mgmtLoc, fwd, fwdOpen>>
  /\ UNCHANGED <<recognized, dropped, cancelledEpochs>>
  /\ UNCHANGED <<pipeVars, ctlVars, sapVars, sessVars>>
  /\ UNCHANGED unitVars

\* 425-433: the chunk is sent to the handle published right now; no handle
\* or a failed send loses it; then the 50 ms sleep
audio_send(g) ==
  /\ audioPc[g] = "send"
  /\ IF streaming_control_tx = 0
     THEN /\ dropped' = dropped \cup Elems(audioChunk[g])
          /\ UNCHANGED ctrlQ
     ELSE /\ CanSend(streaming_control_tx)
          /\ Send(streaming_control_tx, Audio(audioChunk[g]))
          /\ dropped' = IF pumpAlive[streaming_control_tx] THEN dropped
                        ELSE dropped \cup Elems(audioChunk[g])
  /\ audioChunk' = [audioChunk EXCEPT ![g] = <<>>]
  /\ audioPc' = [audioPc EXCEPT ![g] = "check"]
  /\ UNCHANGED <<gen, mgmtPc, mgmtLoc, fwd, fwdOpen>>
  /\ UNCHANGED <<nSess, pumpAlive, evQ, nEvents>>
  /\ UNCHANGED <<recognized, drained, cancelledEpochs>>
  /\ UNCHANGED <<pipeVars, recVars, ctlVars, sapVars>>
  /\ UNCHANGED unitVars

audio_task(g) == audio_check(g) \/ audio_drain(g) \/ audio_send(g)

\* ----------------------------------------------- session-management task
\* voice.rs 445-525
MgmtGoto(g, pc) == mgmtPc' = [mgmtPc EXCEPT ![g] = pc]

MgmtLocInit == [cur |-> 0, ev |-> "none", new |-> 0]

\* A faulty receive: a Final or an Error is acted on without being forwarded.
mgmt_recv_unforwarded(g) ==
  /\ mgmtPc[g] = "recv"
  /\ LET s == mgmtLoc[g].cur
         e == Head(evQ[s])
     IN IF evQ[s] # <<>>
        THEN /\ evQ' = [evQ EXCEPT ![s] = IF e = "Partial" /\ fwdOpen[g]
                                         THEN Tail(@) ELSE <<>>]
             /\ IF ~fwdOpen[g]
                THEN /\ MgmtGoto(g, "done")
                     /\ mgmtLoc' = [mgmtLoc EXCEPT ![g] = MgmtLocInit]
                     /\ UNCHANGED fwd
                ELSE /\ fwd' = [fwd EXCEPT ![g] = IF e = "Partial" THEN Append(@, e) ELSE @]
                     /\ MgmtGoto(g, CASE e = "Partial" -> "recv"
                                      [] e = "Final" -> "final"
                                      [] e = "Error" -> "to_idle")
                     /\ UNCHANGED mgmtLoc
        ELSE /\ ~pumpAlive[s]
             /\ MgmtGoto(g, "recheck")
             /\ UNCHANGED <<evQ, fwd, mgmtLoc>>
  /\ UNCHANGED <<gen, audioPc, audioChunk, fwdOpen>>
  /\ UNCHANGED <<nSess, pumpAlive, ctrlQ, nEvents>>
  /\ UNCHANGED <<pipeVars, recVars, ctlVars, sapVars, histVars>>
  /\ UNCHANGED unitVars

\* A faulty receive: after an Error the task reconnects as after a Final.
mgmt_recv_retrying(g) ==
  /\ mgmtPc[g] = "recv"
  /\ LET s == mgmtLoc[g].cur
         e == Head(evQ[s])
     IN IF evQ[s] # <<>>
        THEN /\ evQ' = [evQ EXCEPT ![s] = IF e = "Partial" /\ fwdOpen[g]
                                         THEN Tail(@) ELSE <<>>]
             /\ IF ~fwdOpen[g]
                THEN /\ MgmtGoto(g, "done")
                     /\ mgmtLoc' = [mgmtLoc EXCEPT ![g] = MgmtLocInit]
                     /\ UNCHANGED fwd
                ELSE /\ fwd' = [fwd EXCEPT ![g] = Append(@, e)]
                     /\ MgmtGoto(g, CASE e = "Partial" -> "recv"
                                      [] e = "Final" -> "final"
                                      [] e = "Error" -> "recheck")
                     /\ UNCHANGED mgmtLoc
        ELSE /\ ~pumpAlive[s]
             /\ MgmtGoto(g, "recheck")
             /\ UNCHANGED <<evQ, fwd, mgmtLoc>>
  /\ UNCHANGED <<gen, audioPc, audioChunk, fwdOpen>>
  /\ UNCHANGED <<nSess, pumpAlive, ctrlQ, nEvents>>
  /\ UNCHANGED <<pipeVars, recVars, ctlVars, sapVars, histVars>>
  /\ UNCHANGED unitVars

\* 451-459, 477: an event of the current session is received and forwarded
\* (the task returns when the external receiver is gone), or the session's
\* event channel is found closed and empty.  After a Final or an Error this
\* receiver is not read again: what is queued behind is lost with it.
mgmt_recv(g) ==
  /\ mgmtPc[g] = "recv"
  /\ LET s == mgmtLoc[g].cur
         e == Head(evQ[s])
     IN IF evQ[s] # <<>>
        THEN /\ evQ' = [evQ EXCEPT ![s] = IF e = "Partial" /\ fwdOpen[g]
                                         THEN Tail(@) ELSE <<>>]
             /\ IF ~fwdOpen[g]
                THEN /\ MgmtGoto(g, "done")
                     /\ mgmtLoc' = [mgmtLoc EXCEPT ![g] = MgmtLocInit]
                     /\ UNCHANGED fwd
                ELSE /\ fwd' = [fwd EXCEPT ![g] = Append(@, e)]
                     /\ MgmtGoto(g, CASE e = "Partial" -> "recv"
                                      [] e = "Final" -> "final"
                                      [] e = "Error" -> "to_idle")
                     /\ UNCHANGED mgmtLoc
        ELSE /\ ~pumpAlive[s]
             /\ MgmtGoto(g, "recheck")
             /\ UNCHANGED <<evQ, fwd, mgmtLoc>>
  /\ UNCHANGED <<gen, audioPc, audioChunk, fwdOpen>>
  /\ UNCHANGED <<nSess, pumpAlive, ctrlQ, nEvents>>
  /\ UNCHANGED <<pipeVars, recVars, ctlVars, sapVars, histVars>>
  /\ UNCHANGED unitVars

\* 462-474: after a Final the terminal-stop flag is loaded: set, the task
\* stops; clear, it breaks out of the receive loop
mgmt_final(g) ==
  /\ mgmtPc[g] = "final"
  /\ IF should_stop
     THEN /\ MgmtGoto(g, "to_idle")
          /\ UNCHANGED mgmtLoc
     ELSE /\ MgmtGoto(g, "recheck")
          /\ mgmtLoc' = [mgmtLoc EXCEPT ![g].ev = "Final"]
  /\ UNCHANGED <<gen, audioPc, audioChunk, fwd, fwdOpen>>
  /\ UNCHANGED <<pipeVars, recVars, ctlVars, sapVars, sessVars, histVars>>
  /\ UNCHANGED unitVars

\* A faulty reconnect: the new session's sender is published before the
\* open has returned, whether or not it then succeeds.
mgmt_recheck_publishing(g) ==
  /\ mgmtPc[g] = "recheck"
  /\ IF should_stop
     THEN /\ MgmtGoto(g, "to_idle")
          /\ mgmtLoc' = [mgmtLoc EXCEPT ![g].ev = "none"]
          /\ UNCHANGED <<sessVars, streaming_control_tx>>
     ELSE /\ nSess < MaxSess
          /\ streaming_control_tx' = NewSession
          /\ \/ /\ OpenSession
                /\ mgmtLoc' = [mgmtLoc EXCEPT ![g].ev = "none", ![g].new = NewSession]
                /\ MgmtGoto(g, "publish")
             \/ /\ MgmtGoto(g, "to_idle")
                /\ mgmtLoc' = [mgmtLoc EXCEPT ![g].ev = "none"]
                /\ UNCHANGED sessVars
  /\ UNCHANGED <<state, cancelled, streaming_mode, should_stop>>
  /\ UNCHANGED <<gen, audioPc, audioChunk, fwd, fwdOpen>>
  /\ UNCHANGED <<recVars, ctlVars, sapVars, histVars>>
  /\ UNCHANGED unitVars

\* A faulty reconnect: the terminal-stop flag is not looked at.
mgmt_recheck_unconditional(g) ==
  /\ mgmtPc[g] = "recheck"
  /\ \/ /\ OpenSession
        /\ mgmtLoc' = [mgmtLoc EXCEPT ![g].ev = "none", ![g].new = NewSession]
        /\ MgmtGoto(g, "publish")
     \/ /\ MgmtGoto(g, "to_idle")
        /\ mgmtLoc' = [mgmtLoc EXCEPT ![g].ev = "none"]
        /\ UNCHANGED sessVars
  /\ UNCHANGED <<gen, audioPc, audioChunk, fwd, fwdOpen>>
  /\ UNCHANGED <<pipeVars, recVars, ctlVars, sapVars, histVars>>
  /\ UNCHANGED unitVars

\* 487-514: below the receive loop the terminal-stop flag is loaded (again):
\* set, the task stops; clear, it reconnects: the factory is given the
\* configuration it succeeded with at the start, then
\* new_service.start_streaming(sample_rate).await
mgmt_recheck(g) ==
  /\ mgmtPc[g] = "recheck"
  /\ IF should_stop
     THEN /\ MgmtGoto(g, "to_idle")
          /\ mgmtLoc' = [mgmtLoc EXCEPT ![g].ev = "none"]
          /\ UNCHANGED sessVars
     ELSE \/ /\ OpenSession
             /\ mgmtLoc' = [mgmtLoc EXCEPT ![g].ev = "none", ![g].new = NewSession]
             /\ MgmtGoto(g, "publish")
          \/ /\ MgmtGoto(g, "to_idle")
             /\ mgmtLoc' = [mgmtLoc EXCEPT ![g].ev = "none"]
             /\ UNCHANGED sessVars
  /\ UNCHANGED <<gen, audioPc, audioChunk, fwd, fwdOpen>>
  /\ UNCHANGED <<pipeVars, recVars, ctlVars, sapVars, histVars>>
  /\ UNCHANGED unitVars

\* 517-523: the new control sender replaces the published one under the
\* write lock; the new event receiver replaces the current one
mgmt_publish(g) ==
  /\ mgmtPc[g] = "publish"
  /\ ~control_tx_read_locked
  /\ streaming_control_tx' = mgmtLoc[g].new
  /\ mgmtLoc' = [mgmtLoc EXCEPT ![g].cur = mgmtLoc[g].new, ![g].new = 0]
  /\ MgmtGoto(g, "recv")
  /\ UNCHANGED <<state, cancelled, streaming_mode, should_stop>>
  /\ UNCHANGED <<gen, audioPc, audioChunk, fwd, fwdOpen>>
  /\ UNCHANGED <<recVars, ctlVars, sapVars, sessVars, histVars>>
  /\ UNCHANGED unitVars

\* 466, 479, 489, 500, 510: store Idle
mgmt_to_idle(g) ==
  /\ mgmtPc[g] = "to_idle"
  /\ state' = "Idle"
  /\ MgmtGoto(g, "exit")
  /\ UNCHANGED <<cancelled, streaming_mode, should_stop, streaming_control_tx>>
  /\ UNCHANGED <<gen, audioPc, audioChunk, mgmtLoc, fwd, fwdOpen>>
  /\ UNCHANGED <<recVars, ctlVars, sapVars, sessVars, histVars>>
  /\ UNCHANGED unitVars

\* 467-468, 480-481, 490-491, 501-502, 511-512: clear the streaming-mode
\* flag and return
mgmt_exit(g) ==
  /\ mgmtPc[g] = "exit"
  /\ streaming_mode' = FALSE
  /\ MgmtGoto(g, "done")
  /\ mgmtLoc' = [mgmtLoc EXCEPT ![g] = MgmtLocInit]
  /\ UNCHANGED <<state, cancelled, should_stop, streaming_control_tx>>
  /\ UNCHANGED <<gen, audioPc, audioChunk, fwd, fwdOpen>>
  /\ UNCHANGED <<recVars, ctlVars, sapVars, sessVars, histVars>>
  /\ UNCHANGED unitVars

mgmt_task(g) ==
  \/ mgmt_recv(g) \/ mgmt_final(g) \/ mgmt_recheck(g)
  \/ mgmt_publish(g) \/ mgmt_to_idle(g) \/ mgmt_exit(g)

\* ---------------------------------------------------------- stop_streaming
\* voice.rs 533-574
\* 535-550: nothing to do unless in streaming mode; else the terminal-stop
\* flag is set and capture is stopped
stop_streaming_stop ==
  /\ CanCall
  /\ opsLeft' = opsLeft - 1
  /\ IF ~streaming_mode
     THEN /\ Return("stop_streaming", "Noop")
          /\ UNCHANGED <<should_stop, recState>>
     ELSE /\ should_stop' = TRUE
          /\ recorder_stop
          /\ Goto("p_drain")
          /\ UNCHANGED ctlRet
  /\ UNCHANGED <<state, cancelled, streaming_mode, streaming_control_tx>>
  /\ UNCHANGED <<buffer, recEpoch, nextSample, sampleEpoch>>
  /\ UNCHANGED <<sapVars, taskVars, sessVars, histVars>>
  /\ UNCHANGED unitVars

\* 553-565: read the published handle; with one, drain the buffer and send
\* the remaining samples, if any
stop_streaming_drain ==
  /\ ctl.pc = "p_drain"
  /\ IF streaming_control_tx = 0
     THEN /\ Goto("p_store")
          /\ UNCHANGED <<buffer, ctrlQ>>
     ELSE /\ ctl' = [ctl EXCEPT !.pc = "p_commit", !.sess = streaming_control_tx]
          /\ drain_buffer
          /\ IF buffer = <<>>
             THEN UNCHANGED ctrlQ
             ELSE /\ CanSend(streaming_control_tx)
                  /\ Send(streaming_control_tx, Audio(buffer))
  /\ UNCHANGED <<recState, recEpoch, nextSample, sampleEpoch>>
  /\ UNCHANGED <<nSess, pumpAlive, evQ, nEvents>>
  /\ UNCHANGED <<pipeVars, ctlRet, opsLeft, sapVars, taskVars, histVars>>
  /\ UNCHANGED unitVars

\* 568-569: send Commit, release the handle
stop_streaming_commit ==
  /\ ctl.pc = "p_commit"
  /\ CanSend(ctl.sess)
  /\ Send(ctl.sess, Commit)
  /\ Goto("p_store")
  /\ UNCHANGED <<nSess, pumpAlive, evQ, nEvents>>
  /\ UNCHANGED <<pipeVars, ctlRet, opsLeft, recVars, sapVars, taskVars, histVars>>
  /\ UNCHANGED unitVars

\* 571-573: store Processing, return Ok
stop_streaming_store ==
  /\ ctl.pc = "p_store"
  /\ state' = "Processing"
  /\ Return("stop_streaming", "Ok")
  /\ UNCHANGED <<cancelled, streaming_mode, should_stop, streaming_control_tx>>
  /\ UNCHANGED <<opsLeft, recVars, sapVars, taskVars, sessVars, histVars>>
  /\ UNCHANGED unitVars

\* -------------------------------------------------------- cancel_streaming
\* voice.rs 577-608, cleanup_streaming 305-322
\* 578-593: nothing to do unless in streaming mode; else the terminal-stop
\* flag is set and capture is stopped
cancel_streaming_stop ==
  /\ CanCall
  /\ opsLeft' = opsLeft - 1
  /\ IF ~streaming_mode
     THEN /\ Return("cancel_streaming", "Noop")
          /\ UNCHANGED <<should_stop, recState>>
     ELSE /\ should_stop' = TRUE
          /\ recorder_stop
          /\ Goto("x_cancel")
          /\ UNCHANGED ctlRet
  /\ UNCHANGED <<state, cancelled, streaming_mode, streaming_control_tx>>
  /\ UNCHANGED <<buffer, recEpoch, nextSample, sampleEpoch>>
  /\ UNCHANGED <<sapVars, taskVars, sessVars, histVars>>
  /\ UNCHANGED unitVars

\* 596-598: send Cancel to the published handle, if any
cancel_streaming_cancel ==
  /\ ctl.pc = "x_cancel"
  /\ IF streaming_control_tx = 0
     THEN UNCHANGED ctrlQ
     ELSE CanSend(streaming_control_tx) /\ Send(streaming_control_tx, CancelMsg)
  /\ ctl' = [ctl EXCEPT !.pc = "x_cleanup", !.sess = streaming_control_tx]
  /\ UNCHANGED <<nSess, pumpAlive, evQ, nEvents>>
  /\ UNCHANGED <<pipeVars, ctlRet, opsLeft, recVars, sapVars, taskVars, histVars>>
  /\ UNCHANGED unitVars

\* cleanup_streaming (305-322): the handle is cleared
cleanup_streaming == streaming_control_tx' = 0

\* 601-603: cleanup_streaming().await, then clear the streaming-mode flag
cancel_streaming_cleanup ==
  /\ ctl.pc = "x_cleanup"
  /\ cleanup_streaming
  /\ streaming_mode' = FALSE
  /\ Goto("x_cancelled")
  /\ UNCHANGED <<state, cancelled, should_stop>>
  /\ UNCHANGED <<ctlRet, opsLeft, recVars, sapVars, taskVars, sessVars, histVars>>
  /\ UNCHANGED unitVars

\* 604: set the cancellation flag
cancel_streaming_cancelled ==
  /\ ctl.pc = "x_cancelled"
  /\ cancelled' = TRUE
  /\ Goto("x_idle")
  /\ UNCHANGED <<state, streaming_mode, should_stop, streaming_control_tx>>
  /\ UNCHANGED <<ctlRet, opsLeft, recVars, sapVars, taskVars, sessVars, histVars>>
  /\ UNCHANGED unitVars

\* 605-607: store Idle, return Ok.
cancel_streaming_idle ==
  /\ ctl.pc = "x_idle"
  /\ state' = "Idle"
  /\ Return("cancel_streaming", "Ok")
  /\ UNCHANGED <<cancelled, streaming_mode, should_stop, streaming_control_tx>>
  /\ UNCHANGED <<opsLeft, recVars, sapVars, taskVars, sessVars, histVars>>
  /\ UNCHANGED unitVars

\* ------------------------------------------------ AudioRecorder on its own
\* recorder.rs: start() and stop() as the pipeline calls them (one at a
\* time, under the recorder's write lock), the worker thread start() spawns
\* and the input callback of the stream the worker builds.
MaxRecCalls == 3     \* calls of start() and stop() in one run
MaxFrames == 6       \* frames the device delivers in one run
MaxChunk == 2        \* frames in one callback

\* resample_ratio (171) as <<source, target>> in lowest terms: 16 kHz,
\* 8 kHz, 32 kHz, 24 kHz and 96 kHz devices for the 16 kHz target.
Rates == {<<1, 1>>, <<1, 2>>, <<2, 1>>, <<3, 2>>, <<6, 1>>}

\* 1.0 / resample_ratio and its multiples are exact in f64 when the source
\* is a power of two times the target's divisor; otherwise every addition
\* leaves the accumulator a rounding error below, at or above the exact
\* value.
RoundingErrors(rate) == IF rate[1] \in {1, 2, 4, 8} THEN {0} ELSE {-1, 0, 1}

\* 199: *acc >= 1.0
AccAtLeastOne(acc, source) ==
  acc.num > source \/ (acc.num = source /\ acc.err >= 0)

\* 199-202: while *acc >= 1.0 { buffer.push(mono); *acc -= 1.0 }
RECURSIVE EmitWhile(_, _)
EmitWhile(acc, source) ==
  IF AccAtLeastOne(acc, source)
  THEN LET rest == EmitWhile([acc EXCEPT !.num = @ - source], source)
       IN [acc |-> rest.acc, pushed |-> rest.pushed + 1]
  ELSE [acc |-> acc, pushed |-> 0]

\* 194-203: one frame: the accumulator is advanced by 1.0 / resample_ratio
\* (err is the rounding of that addition) and the mono sample is pushed
\* once for every whole unit in it.
ResampleFrame(r, err) ==
  LET added == [num |-> r.acc.num + r.rate[2], err |-> err]
      out == EmitWhile(added, r.rate[1])
  IN [r EXCEPT !.acc = out.acc, !.frames = @ + 1, !.emitted = @ + out.pushed]

\* 189-204: the callback's loop over the frames of one chunk
RECURSIVE ResampleChunk(_, _)
ResampleChunk(r, errs) ==
  IF errs = <<>> THEN r
  ELSE ResampleChunk(ResampleFrame(r, Head(errs)), Tail(errs))

\* The outcomes of opening the device (152-212).
OpenOutcomes == {"Ok", "NoInputDevice", "Device", "Stream"}

\* 44-88: start(): Ok at once when already recording; else the buffer is
\* cleared, the command channel created, the worker spawned and sent Start,
\* the state set to Recording, and Ok returned
AudioRecorder_start ==
  /\ recCall.pc = "idle"
  /\ recCall.n < MaxRecCalls
  /\ recCall' = [recCall EXCEPT !.n = @ + 1]
  /\ recorder_start
  /\ IF recState = "Recording"
     THEN UNCHANGED <<command_tx, commands, worker_handle, worker>>
     ELSE /\ command_tx' = TRUE
          /\ commands' = <<"Start">>
          /\ worker_handle' = TRUE
          /\ worker' = [pc |-> "spawned", err |-> "none"]
  /\ recRet' = [op |-> "start", res |-> "Ok", data |-> <<>>]
  /\ UNCHANGED <<nextSample, sampleEpoch, resampler, encVars, facVars>>
  /\ UNCHANGED <<pipeVars, ctlVars, sapVars, taskVars, sessVars, histVars>>
  /\ UNCHANGED <<accumulated_text, pumpLog, lockPc,
               is_alt_pressed, is_recording, hkThreads, hkCalls>>

\* 147-212: the worker receives Start and opens the default input device,
\* reads its configuration, builds the stream and plays it; a failure ends
\* the thread with the error, which the spawning closure logs (69-71)
run_recording_loop_open ==
  /\ worker.pc = "spawned"
  /\ commands # <<>> /\ Head(commands) = "Start"
  /\ commands' = Tail(commands)
  /\ \E outcome \in OpenOutcomes :
       IF outcome = "Ok"
       THEN /\ worker' = [pc |-> "running", err |-> "none"]
            /\ \E rate \in Rates : resampler' = [ResamplerInit EXCEPT !.rate = rate]
       ELSE /\ worker' = [pc |-> "ended", err |-> outcome]
            /\ UNCHANGED resampler
  /\ UNCHANGED <<command_tx, worker_handle, recCall, recRet>>
  /\ UNCHANGED <<recVars, encVars, facVars>>
  /\ UNCHANGED <<pipeVars, ctlVars, sapVars, taskVars, sessVars, histVars>>
  /\ UNCHANGED <<accumulated_text, pumpLog, lockPc,
               is_alt_pressed, is_recording, hkThreads, hkCalls>>

\* 189-204: the input callback with a chunk of k frames
input_callback(k) ==
  /\ worker.pc = "running"
  /\ resampler.frames + k <= MaxFrames
  /\ \E errs \in [1..k -> RoundingErrors(resampler.rate)] :
       /\ resampler' = ResampleChunk(resampler, errs)
       /\ buffer' = buffer \o [j \in 1..(resampler'.emitted - resampler.emitted) |-> 0]
  /\ UNCHANGED <<recState, recEpoch, nextSample, sampleEpoch>>
  /\ UNCHANGED <<command_tx, commands, worker_handle, worker, recCall, recRet>>
  /\ UNCHANGED <<encVars, facVars>>
  /\ UNCHANGED <<pipeVars, ctlVars, sapVars, taskVars, sessVars, histVars>>
  /\ UNCHANGED <<accumulated_text, pumpLog, lockPc,
               is_alt_pressed, is_recording, hkThreads, hkCalls>>

\* 216-229: the worker receives Stop, drops the stream and ends
run_recording_loop_stop ==
  /\ worker.pc = "running"
  /\ commands # <<>> /\ Head(commands) = "Stop"
  /\ commands' = Tail(commands)
  /\ worker' = [pc |-> "ended", err |-> "none"]
  /\ UNCHANGED <<command_tx, worker_handle, recCall, recRet, resampler>>
  /\ UNCHANGED <<recVars, encVars, facVars>>
  /\ UNCHANGED <<pipeVars, ctlVars, sapVars, taskVars, sessVars, histVars>>
  /\ UNCHANGED <<accumulated_text, pumpLog, lockPc,
               is_alt_pressed, is_recording, hkThreads, hkCalls>>

\* A faulty stop(): Stop is sent whatever the state.
AudioRecorder_stop_always ==
  /\ recCall.pc = "idle"
  /\ recCall.n < MaxRecCalls
  /\ command_tx' = FALSE
  /\ commands' = IF command_tx /\ worker.pc # "ended"
                 THEN Append(commands, "Stop") ELSE commands
  /\ recCall' = [pc |-> "join", n |-> recCall.n + 1]
  /\ UNCHANGED <<worker_handle, worker, recRet, resampler>>
  /\ UNCHANGED <<recVars, encVars, facVars>>
  /\ UNCHANGED <<pipeVars, ctlVars, sapVars, taskVars, sessVars, histVars>>
  /\ UNCHANGED <<accumulated_text, pumpLog, lockPc,
               is_alt_pressed, is_recording, hkThreads, hkCalls>>

\* 91-102: stop(): an empty vector at once when not recording; else the
\* command sender is taken and Stop is sent through it (a send to a worker
\* that has ended fails and is ignored)
AudioRecorder_stop ==
  /\ recCall.pc = "idle"
  /\ recCall.n < MaxRecCalls
  /\ IF recState # "Recording"
     THEN /\ recRet' = [op |-> "stop", res |-> "Ok", data |-> recorder_stop_data]
          /\ recCall' = [recCall EXCEPT !.n = @ + 1]
          /\ UNCHANGED <<command_tx, commands>>
     ELSE /\ command_tx' = FALSE
          /\ commands' = IF command_tx /\ worker.pc # "ended"
                         THEN Append(commands, "Stop") ELSE commands
          /\ recCall' = [pc |-> "join", n |-> recCall.n + 1]
          /\ UNCHANGED recRet
  /\ UNCHANGED <<worker_handle, worker, resampler>>
  /\ UNCHANGED <<recVars, encVars, facVars>>
  /\ UNCHANGED <<pipeVars, ctlVars, sapVars, taskVars, sessVars, histVars>>
  /\ UNCHANGED <<accumulated_text, pumpLog, lockPc,
               is_alt_pressed, is_recording, hkThreads, hkCalls>>

\* 104-119: the worker is joined, the state set to Idle and a clone of the
\* buffer returned
AudioRecorder_stop_join ==
  /\ recCall.pc = "join"
  /\ worker_handle => worker.pc = "ended"
  /\ worker_handle' = FALSE
  /\ recRet' = [op |-> "stop", res |-> "Ok", data |-> recorder_stop_data]
  /\ recorder_stop
  /\ recCall' = [recCall EXCEPT !.pc = "idle"]
  /\ UNCHANGED <<buffer, recEpoch, nextSample, sampleEpoch>>
  /\ UNCHANGED <<command_tx, commands, worker, resampler>>
  /\ UNCHANGED <<encVars, facVars>>
  /\ UNCHANGED <<pipeVars, ctlVars, sapVars, taskVars, sessVars, histVars>>
  /\ UNCHANGED <<accumulated_text, pumpLog, lockPc,
               is_alt_pressed, is_recording, hkThreads, hkCalls>>

\* -------------------------------------------------- the encoders on their own
\* src-tauri/src/audio/mod.rs: encode_to_pcm and encode_to_wav as pure
\* functions of the samples (in ten-thousandths).
MaxEncLen == 2       \* samples in one encoded buffer

\* -2.0, -1.0, -0.5, 0, 0.0001, 0.25, 0.5, 1.0 and 1.5
EncSamples == {-20000, -10000, -5000, 0, 1, 2500, 5000, 10000, 15000}

EncInputs == UNION {[1..n -> EncSamples] : n \in 0..MaxEncLen}

\* f32::clamp
clamp(x, lo, hi) == IF x < lo THEN lo ELSE IF x > hi THEN hi ELSE x

\* `as i16` of a float in range: the fraction is dropped, towards zero
as_i16(num, den) == IF num < 0 THEN 0 - ((0 - num) \div den) ELSE num \div den

\* 24, 45: (sample.clamp(-1.0, 1.0) * i16::MAX as f32) as i16
quantize(sample) == as_i16(clamp(sample, 0 - One, One) * i16_MAX, One)

\* i16::to_le_bytes: two's complement, low byte first
to_le_bytes(v) ==
  LET u == IF v < 0 THEN v + 65536 ELSE v
  IN <<u % 256, u \div 256>>

\* 20-28: two bytes per sample, in order
RECURSIVE encode_to_pcm(_)
encode_to_pcm(samples) ==
  IF samples = <<>> THEN <<>>
  ELSE to_le_bytes(quantize(Head(samples))) \o encode_to_pcm(Tail(samples))

\* 31-56: the 16-bit integer samples handed to the WAV writer, in order
\* (the header the writer puts before them is left out)
encode_to_wav(samples) == [k \in DOMAIN samples |-> quantize(samples[k])]

call_encode_to_pcm ==
  /\ "pcm" \notin encOut.called
  /\ encOut' = [encOut EXCEPT !.pcm = encode_to_pcm(encIn), !.called = @ \cup {"pcm"}]
  /\ UNCHANGED <<encIn, recUnitVars, facVars>>
  /\ UNCHANGED <<pipeVars, recVars, ctlVars, sapVars, taskVars, sessVars, histVars>>
  /\ UNCHANGED <<accumulated_text, pumpLog, lockPc,
               is_alt_pressed, is_recording, hkThreads, hkCalls>>

call_encode_to_wav ==
  /\ "wav" \notin encOut.called
  /\ encOut' = [encOut EXCEPT !.wav = encode_to_wav(encIn), !.called = @ \cup {"wav"}]
  /\ UNCHANGED <<encIn, recUnitVars, facVars>>
  /\ UNCHANGED <<pipeVars, recVars, ctlVars, sapVars, taskVars, sessVars, histVars>>
  /\ UNCHANGED <<accumulated_text, pumpLog, lockPc,
               is_alt_pressed, is_recording, hkThreads, hkCalls>>

\* ------------------------------------------ the provider factories on their own
\* Every AsrConfig and LlmConfig over the known identifiers and one unknown
\* one, with every combination of sections present.
FactoryConfigs ==
  { [asr |-> AsrConfig(p, S), llm |-> LlmConfig(e, q, T)] :
      p \in AsrProviders \cup {"Unknown"}, S \in SUBSET AsrProviders,
      e \in BOOLEAN, q \in LlmProviders \cup {"Unknown"}, T \in SUBSET LlmProviders }

call_create_asr_service ==
  /\ facOut.asr = "not called"
  /\ facOut' = [facOut EXCEPT !.asr = create_asr_service(facIn.asr)]
  /\ UNCHANGED <<facIn, recUnitVars, encVars>>
  /\ UNCHANGED <<pipeVars, recVars, ctlVars, sapVars, taskVars, sessVars, histVars>>
  /\ UNCHANGED <<accumulated_text, pumpLog, lockPc,
               is_alt_pressed, is_recording, hkThreads, hkCalls>>

call_create_streaming_asr_service ==
  /\ facOut.streaming = "not called"
  /\ facOut' = [facOut EXCEPT !.streaming = create_streaming_asr_service(facIn.asr)]
  /\ UNCHANGED <<facIn, recUnitVars, encVars>>
  /\ UNCHANGED <<pipeVars, recVars, ctlVars, sapVars, taskVars, sessVars, histVars>>
  /\ UNCHANGED <<accumulated_text, pumpLog, lockPc,
               is_alt_pressed, is_recording, hkThreads, hkCalls>>

call_create_llm_service ==
  /\ facOut.llm = "not called"
  /\ facOut' = [facOut EXCEPT !.llm = create_llm_service(facIn.llm)]
  /\ UNCHANGED <<facIn, recUnitVars, encVars>>
  /\ UNCHANGED <<pipeVars, recVars, ctlVars, sapVars, taskVars, sessVars, histVars>>
  /\ UNCHANGED <<accumulated_text, pumpLog, lockPc,
               is_alt_pressed, is_recording, hkThreads, hkCalls>>

\* ------------------------------------------------ a session's pump on its own
\* qwen_realtime.rs 219-323: what the pump makes of the provider's
\* transcription messages.  An Option<String> is <<>> for None and <<s>> for
\* Some(s).
MaxMsgs == 3         \* provider messages one pump handles

OptTexts == {<<>>, <<"">>, <<"a">>, <<"b">>}

\* Option::unwrap_or
unwrap_or(opt, default) == IF opt = <<>> THEN default ELSE opt[1]

\* The text of a Final with the message's own text field not looked at.
final_text_of_transcript(transcript, text, accumulated) ==
  unwrap_or(transcript, accumulated)

\* 288-290: response.transcript.or(response.text).unwrap_or(accumulated_text.clone())
final_text(transcript, text, accumulated) ==
  unwrap_or(IF transcript = <<>> THEN text ELSE transcript, accumulated)

\* 274-285: a conversation.item.input_audio_transcription.text message: a
\* non-empty text replaces the accumulated one; a Partial is sent
pump_partial(text, stash) ==
  /\ Len(pumpLog) < MaxMsgs
  /\ accumulated_text' = IF unwrap_or(text, "") # "" THEN unwrap_or(text, "")
                         ELSE accumulated_text
  /\ pumpLog' = Append(pumpLog,
       [type |-> "text", transcript |-> <<>>, text |-> text,
        event |-> [t |-> "Partial", text |-> unwrap_or(text, ""),
                   stash |-> unwrap_or(stash, "")]])
  /\ UNCHANGED <<recUnitVars, encVars, facVars, lockPc,
               is_alt_pressed, is_recording, hkThreads, hkCalls>>
  /\ UNCHANGED <<pipeVars, recVars, ctlVars, sapVars, taskVars, sessVars, histVars>>

\* 287-296: a conversation.item.input_audio_transcription.completed
\* message: a Final is sent and the accumulated text is cleared
pump_completed(transcript, text) ==
  /\ Len(pumpLog) < MaxMsgs
  /\ pumpLog' = Append(pumpLog,
       [type |-> "completed", transcript |-> transcript, text |-> text,
        event |-> [t |-> "Final", text |-> final_text(transcript, text, accumulated_text),
                   stash |-> ""]])
  /\ accumulated_text' = ""
  /\ UNCHANGED <<recUnitVars, encVars, facVars, lockPc,
               is_alt_pressed, is_recording, hkThreads, hkCalls>>
  /\ UNCHANGED <<pipeVars, recVars, ctlVars, sapVars, taskVars, sessVars, histVars>>

\* ---------------------------------------------------- the locks on their own
\* The locks each thread takes and drops, in the order of the code.  A lock
\* is the capture buffer's mutex (recorder.rs 22), the accumulator's mutex
\* (182), the recorder state's mutex (25), the recorder's reader-writer lock
\* (voice.rs 51) or the session handle's reader-writer lock (60).  A step
\* <<lock, "x">> locks a mutex or takes a write guard, <<lock, "r">> takes a
\* read guard, <<lock, "drop">> drops the guard.

\* Faulty programs: the audio-forwarding task keeps the recorder's read
\* guard while it reads the handle.
LockProgram_audio_guard_kept ==
  [ callback |-> <<<<"buffer", "x">>, <<"accumulator", "x">>,
                   <<"accumulator", "drop">>, <<"buffer", "drop">>>>,
    audio |-> <<<<"recorder", "r">>, <<"buffer", "x">>, <<"buffer", "drop">>,
                <<"handle", "r">>, <<"handle", "drop">>,
                <<"recorder", "drop">>>>,
    mgmt |-> <<<<"handle", "x">>, <<"handle", "drop">>>>,
    start_recording |-> <<<<"recorder", "x">>,
                          <<"state", "x">>, <<"state", "drop">>,
                          <<"buffer", "x">>, <<"buffer", "drop">>,
                          <<"state", "x">>, <<"state", "drop">>,
                          <<"recorder", "drop">>>>,
    stop_streaming |-> <<<<"recorder", "x">>,
                         <<"state", "x">>, <<"state", "drop">>,
                         <<"state", "x">>, <<"state", "drop">>,
                         <<"buffer", "x">>, <<"buffer", "drop">>,
                         <<"recorder", "drop">>,
                         <<"handle", "r">>,
                         <<"recorder", "r">>, <<"buffer", "x">>,
                         <<"buffer", "drop">>, <<"recorder", "drop">>,
                         <<"handle", "drop">>>> ]

LockProgram ==
  [ \* recorder.rs 189-204: the input callback; the guards drop at the end
    \* of the closure, the later one first
    callback |-> <<<<"buffer", "x">>, <<"accumulator", "x">>,
                   <<"accumulator", "drop">>, <<"buffer", "drop">>>>,
    \* voice.rs 416-431: one round of the audio-forwarding task;
    \* drain_buffer takes the samples out of the mutex-protected buffer
    audio |-> <<<<"recorder", "r">>, <<"buffer", "x">>, <<"buffer", "drop">>,
                <<"recorder", "drop">>,
                <<"handle", "r">>, <<"handle", "drop">>>>,
    \* voice.rs 517-520: the session-management task publishes a handle
    mgmt |-> <<<<"handle", "x">>, <<"handle", "drop">>>>,
    \* voice.rs 140-146 with recorder.rs 44-89: start_recording keeps the
    \* write guard until it returns
    start_recording |-> <<<<"recorder", "x">>,
                          <<"state", "x">>, <<"state", "drop">>,
                          <<"buffer", "x">>, <<"buffer", "drop">>,
                          <<"state", "x">>, <<"state", "drop">>,
                          <<"recorder", "drop">>>>,
    \* voice.rs 545-569 with recorder.rs 91-120: stop_streaming stops the
    \* recorder, then drains it with the handle's read guard held
    stop_streaming |-> <<<<"recorder", "x">>,
                         <<"state", "x">>, <<"state", "drop">>,
                         <<"state", "x">>, <<"state", "drop">>,
                         <<"buffer", "x">>, <<"buffer", "drop">>,
                         <<"recorder", "drop">>,
                         <<"handle", "r">>,
                         <<"recorder", "r">>, <<"buffer", "x">>,
                         <<"buffer", "drop">>, <<"recorder", "drop">>,
                         <<"handle", "drop">>>> ]

\* The guards thread t holds after n steps of its program, in the order it
\* took them.
RECURSIVE Held(_, _)
Held(t, n) ==
  IF n = 0 THEN <<>>
  ELSE LET step == LockProgram[t][n]
           before == Held(t, n - 1)
       IN IF step[2] # "drop" THEN Append(before, step)
          ELSE SelectSeq(before, LAMBDA g : g[1] # step[1])

\* Mutex::lock, RwLock::read, RwLock::write and the drop of a guard: thread t
\* takes the next step of its program, waiting while another thread holds
\* the lock it wants (readers share); after the last step it starts over.
lock_step(t) ==
  /\ IF lockPc[t] = Len(LockProgram[t])
     THEN lockPc' = [lockPc EXCEPT ![t] = 0]
     ELSE LET step == LockProgram[t][lockPc[t] + 1]
          IN /\ step[2] # "drop" =>
                  \A u \in DOMAIN LockProgram \ {t} :
                    \A k \in DOMAIN Held(u, lockPc[u]) :
                      Held(u, lockPc[u])[k][1] = step[1] =>
                        (step[2] = "r" /\ Held(u, lockPc[u])[k][2] = "r")
             /\ lockPc' = [lockPc EXCEPT ![t] = @ + 1]
  /\ UNCHANGED <<recUnitVars, encVars, facVars, accumulated_text, pumpLog,
               is_alt_pressed, is_recording, hkThreads, hkCalls>>
  /\ UNCHANGED <<pipeVars, recVars, ctlVars, sapVars, taskVars, sessVars, histVars>>

\* ------------------------------------------- the hotkey listener on its own
\* hotkey/macos.rs.  The event tap's callback runs on the listener's run
\* loop, one event at a time; press k is the k-th press it has acted on.
MaxPress == 2        \* presses of the hotkey

\* 29-75: a FlagsChanged event whose flags have the hotkey down or up.  A
\* press with no recording under way spawns a thread for start_recording,
\* a release with one under way spawns a thread for stop_recording.
callback(alt_pressed) ==
  /\ LET LastPress == Cardinality({k \in 1..MaxPress : hkThreads[k].start # "none"})
     IN
     IF alt_pressed /\ ~is_alt_pressed
     THEN /\ LastPress < MaxPress
          /\ is_alt_pressed' = TRUE
          /\ IF ~is_recording
             THEN /\ is_recording' = TRUE
                  /\ hkThreads' = [hkThreads EXCEPT ![LastPress + 1].start = "spawned"]
             ELSE UNCHANGED <<is_recording, hkThreads>>
     ELSE IF ~alt_pressed /\ is_alt_pressed
     THEN /\ is_alt_pressed' = FALSE
          /\ IF is_recording
             THEN /\ is_recording' = FALSE
                  /\ hkThreads' = [hkThreads EXCEPT ![LastPress].stop = "spawned"]
             ELSE UNCHANGED <<is_recording, hkThreads>>
     ELSE UNCHANGED <<is_alt_pressed, is_recording, hkThreads>>
  /\ UNCHANGED hkCalls
  /\ UNCHANGED <<recUnitVars, encVars, facVars, accumulated_text, pumpLog, lockPc>>
  /\ UNCHANGED <<pipeVars, recVars, ctlVars, sapVars, taskVars, sessVars, histVars>>

\* 110-121: the thread spawned for press k calls pipeline.start_recording()
hotkey_start_recording(k) ==
  /\ hkThreads[k].start = "spawned"
  /\ hkThreads' = [hkThreads EXCEPT ![k].start = "done"]
  /\ hkCalls' = Append(hkCalls, <<"start_recording", k>>)
  /\ UNCHANGED <<is_alt_pressed, is_recording>>
  /\ UNCHANGED <<recUnitVars, encVars, facVars, accumulated_text, pumpLog, lockPc>>
  /\ UNCHANGED <<pipeVars, recVars, ctlVars, sapVars, taskVars, sessVars, histVars>>

\* 123-157: the thread spawned for the release of press k spawns a task on
\* the async runtime (137), and the task calls pipeline.stop_and_process
\* (139)
hotkey_stop_recording(k) ==
  /\ \/ /\ hkThreads[k].stop = "spawned"
        /\ hkThreads' = [hkThreads EXCEPT ![k].stop = "task"]
        /\ UNCHANGED hkCalls
     \/ /\ hkThreads[k].stop = "task"
        /\ hkThreads' = [hkThreads EXCEPT ![k].stop = "done"]
        /\ hkCalls' = Append(hkCalls, <<"stop_and_process", k>>)
  /\ UNCHANGED <<is_alt_pressed, is_recording>>
  /\ UNCHANGED <<recUnitVars, encVars, facVars, accumulated_text, pumpLog, lockPc>>
  /\ UNCHANGED <<pipeVars, recVars, ctlVars, sapVars, taskVars, sessVars, histVars>>

\* -------------------------------------------------------------------- Init
\* VoicePipeline::new, before any call
InitPipeline ==
  /\ state = "Idle"
  /\ cancelled = FALSE
  /\ streaming_mode = FALSE
  /\ should_stop = FALSE
  /\ streaming_control_tx = 0
  /\ recState = "Idle"
  /\ buffer = <<>>
  /\ recEpoch = 0
  /\ nextSample = 1
  /\ sampleEpoch = <<>>
  /\ ctl = CtlIdle
  /\ ctlRet = [op |-> "none", res |-> "none", sess |-> 0]
  /\ opsLeft = MaxOps
  /\ sapPc = [i \in Saps |-> "idle"]
  /\ sapLoc = [i \in Saps |-> SapLocInit]
  /\ sapResult = [i \in Saps |-> "none"]
  /\ cancelAt = [i \in Saps |-> "none"]
  /\ sawCancel = [i \in Saps |-> NotSeen]
  /\ callbacks = [i \in Saps |-> <<>>]
  /\ gen = 0
  /\ audioPc = [g \in Gens |-> "none"]
  /\ audioChunk = [g \in Gens |-> <<>>]
  /\ mgmtPc = [g \in Gens |-> "none"]
  /\ mgmtLoc = [g \in Gens |-> [cur |-> 0, ev |-> "none", new |-> 0]]
  /\ fwd = [g \in Gens |-> <<>>]
  /\ fwdOpen = [g \in Gens |-> FALSE]
  /\ nSess = 0
  /\ pumpAlive = [s \in Sessions |-> FALSE]
  /\ ctrlQ = [s \in Sessions |-> <<>>]
  /\ evQ = [s \in Sessions |-> <<>>]
  /\ nEvents = 0
  /\ recognized = {}
  /\ drained = {}
  /\ dropped = {}
  /\ cancelledEpochs = {}

\* AudioRecorder::new: no command channel, no worker thread
InitRecorder ==
  /\ command_tx = FALSE
  /\ commands = <<>>
  /\ worker_handle = FALSE
  /\ worker = WorkerNone
  /\ recCall = RecCallIdle
  /\ recRet = [op |-> "none", res |-> "none", data |-> <<>>]
  /\ resampler = ResamplerInit

\* Nothing given to the encoders and the factories
InitEncoders == encIn = <<>> /\ encOut = NoOutput

InitFactories == facIn = NoConfig /\ facOut = NoProduct

\* 220: a pump starts with an empty accumulated text
InitPump == accumulated_text = "" /\ pumpLog = <<>>

\* No thread holds a lock
InitLocks == lockPc = [t \in DOMAIN LockProgram |-> 0]

\* macos.rs 20-21: both flags false, nothing spawned
InitHotkey ==
  /\ is_alt_pressed = FALSE
  /\ is_recording = FALSE
  /\ hkThreads = [k \in 1..MaxPress |-> [start |-> "none", stop |-> "none"]]
  /\ hkCalls = <<>>

Init ==
  /\ InitPipeline /\ InitRecorder /\ InitEncoders /\ InitFactories
  /\ InitPump /\ InitLocks /\ InitHotkey

\* ------------------------------------------------------------ batch mode
start_recording ==
  \/ start_recording_check \/ start_recording_reset
  \/ start_recording_start \/ start_recording_store

cancel ==
  \/ cancel_load \/ cancel_set \/ cancel_stop \/ cancel_idle \/ cancel_clear

NextBatch ==
  \/ Capture
  \/ start_recording
  \/ cancel
  \/ \E i \in Saps : sap_spawn(i)
  \/ \E i \in Saps : stop_and_process(i)

SpecBatch == Init /\ [][NextBatch]_vars

\* -------------------------------------------------------- streaming mode
start_streaming ==
  \/ start_streaming_teardown \/ start_streaming_check \/ start_streaming_reset
  \/ start_streaming_open \/ start_streaming_publish
  \/ start_streaming_recstart \/ start_streaming_store \/ start_streaming_spawn

stop_streaming ==
  \/ stop_streaming_stop \/ stop_streaming_drain
  \/ stop_streaming_commit \/ stop_streaming_store

cancel_streaming ==
  \/ cancel_streaming_stop \/ cancel_streaming_cancel \/ cancel_streaming_cleanup
  \/ cancel_streaming_cancelled \/ cancel_streaming_idle

Provider ==
  \/ \E s \in Sessions : \E e \in {"Partial", "Final", "Error"} : provider_event(s, e)
  \/ \E s \in Sessions : pump_exit(s)

NextStream ==
  \/ Capture
  \/ start_streaming
  \/ stop_streaming
  \/ cancel_streaming
  \/ \E g \in Gens : audio_task(g)
  \/ \E g \in Gens : mgmt_task(g)
  \/ \E g \in Gens : forward_rx_drop(g)
  \/ Provider

SpecStream == Init /\ [][NextStream]_vars

\* ------------------------------------------------------------- both modes
\* The operations of both modes as the host calls them, one after another
\* on its thread, with the stop_and_process calls it has spawned running
\* beside them.  The background tasks of a streaming session are not
\* scheduled in these behaviours.
NextCalls ==
  \/ Capture
  \/ start_recording
  \/ cancel
  \/ \E i \in Saps : sap_spawn(i)
  \/ \E i \in Saps : stop_and_process(i)
  \/ start_streaming
  \/ stop_streaming
  \/ cancel_streaming

SpecCalls == Init /\ [][NextCalls]_vars

\* ------------------------------------------------------ the recorder alone
NextRecorder ==
  \/ AudioRecorder_start
  \/ run_recording_loop_open
  \/ \E k \in 1..MaxChunk : input_callback(k)
  \/ run_recording_loop_stop
  \/ AudioRecorder_stop
  \/ AudioRecorder_stop_join

SpecRecorder == Init /\ [][NextRecorder]_vars

\* ------------------------------------------------------ the encoders alone
InitEncode ==
  /\ InitPipeline /\ InitRecorder /\ InitFactories /\ InitPump /\ InitLocks
  /\ InitHotkey
  /\ encIn \in EncInputs
  /\ encOut = NoOutput

NextEncode == call_encode_to_pcm \/ call_encode_to_wav

SpecEncode == InitEncode /\ [][NextEncode]_vars

\* ----------------------------------------------------- the factories alone
InitFactory ==
  /\ InitPipeline /\ InitRecorder /\ InitEncoders /\ InitPump /\ InitLocks
  /\ InitHotkey
  /\ facIn \in FactoryConfigs
  /\ facOut = NoProduct

NextFactory ==
  \/ call_create_asr_service
  \/ call_create_streaming_asr_service
  \/ call_create_llm_service

SpecFactory == InitFactory /\ [][NextFactory]_vars

\* ----------------------------------------------------------- the pump alone
NextPump ==
  \/ \E text \in OptTexts, stash \in {<<>>, <<"s">>} : pump_partial(text, stash)
  \/ \E transcript \in {<<>>, <<"">>, <<"t">>}, text \in OptTexts :
       pump_completed(transcript, text)

SpecPump == Init /\ [][NextPump]_vars

\* ---------------------------------------------------------- the locks alone
NextLocks == \E t \in DOMAIN LockProgram : lock_step(t)

SpecLocks == Init /\ [][NextLocks]_vars

\* ------------------------------------------------- the hotkey listener alone
NextHotkey ==
  \/ \E alt_pressed \in BOOLEAN : callback(alt_pressed)
  \/ \E k \in 1..MaxPress : hotkey_start_recording(k)
  \/ \E k \in 1..MaxPress : hotkey_stop_recording(k)

SpecHotkey == Init /\ [][NextHotkey]_vars

\* ------------------------------------------------------------------ claims
\* A step in which start_recording is called: its check either passes or
\* returns at once.
StartRecordingCalled ==
  /\ ctl.pc = "idle"
  /\ \/ ctl'.pc = "r_reset"
     \/ /\ ctl'.pc = "idle"
        /\ opsLeft' # opsLeft
        /\ sapPc' = sapPc
        /\ ctlRet'.op = "start_recording"

\* C1: start_recording returns the busy error whenever the state it reads is
\* not Idle (Recording or Processing), and then leaves the state, the
\* cancellation flag and the capture engine as they are; it goes on to
\* store Recording only when it read Idle.
C1_StartRecordingRejectedUnlessIdle ==
  [][ /\ StartRecordingCalled =>
           IF state # "Idle"
           THEN /\ ctl'.pc = "idle"
                /\ ctlRet'.res = "Busy"
                /\ UNCHANGED <<state, cancelled, recVars>>
           ELSE ctl'.pc = "r_reset"
      /\ (ctl.pc = "r_store" /\ ctl'.pc = "idle") =>
           /\ state' = "Recording"
           /\ ctlRet'.op = "start_recording"
           /\ ctlRet'.res = "Ok"
    ]_vars

\* C1 witness: start_recording has returned busy while a stop_and_process
\* call holds the pipeline in Processing.
C1_Witness ==
  /\ ctlRet.op = "start_recording"
  /\ ctlRet.res = "Busy"
  /\ ctl.pc = "idle"
  /\ state = "Processing"
  /\ \E i \in Saps : InFlight(i)

\* C2: every cancel() that observes Recording returns with the state Idle
\* and the cancellation flag clear, and no sample of the recording it
\* cancelled is ever passed to recognize.
C2_CancelWhileRecordingDiscards ==
  [][ /\ (ctl.pc = "c_clear" /\ ctl'.pc = "idle") =>
           (state' = "Idle" /\ ~cancelled')
      /\ \A k \in recognized' : sampleEpoch'[k] \notin cancelledEpochs'
    ]_vars

\* The steps of stop_and_process named by C3.
C3_Steps == {"stop", "encode", "asr", "refine"}

\* C3: a cancel() that observes Processing only sets the flag, and the
\* stop_and_process call in flight at that moment (stopping capture,
\* encoding, transcribing or refining) returns Cancelled.
C3_CancelWhileProcessingUnwinds ==
  [][ /\ (ctl.pc = "idle" /\ ctlRet'.op = "cancel" /\ opsLeft' # opsLeft
            /\ state = "Processing") =>
           (state' = "Processing" /\ cancelled')
      /\ \A i \in Saps :
           (sapResult'[i] # "none" /\ cancelAt'[i] \in C3_Steps) =>
             sapResult'[i] = "Cancelled"
    ]_vars

\* The failures of stop_and_process named by C4.
C4_Failures == {"ErrSilent", "ErrQuiet", "ErrConfig", "ErrAsr"}

\* C4: every return of stop_and_process with a failure leaves the state Idle.
C4_FailureReturnsToIdle ==
  [][ \A i \in Saps :
        (sapResult[i] = "none" /\ sapResult'[i] \in C4_Failures) =>
          state' = "Idle"
    ]_vars

\* A step of stop_and_process call i that leaves the statement at pc.
SapLeaves(i, pc) == sapPc[i] = pc /\ sapPc'[i] # pc

\* C5: stop_and_process called in a state other than Recording returns Ok
\* with the empty text and leaves the pipeline state and flags unchanged.
C5_NoOpUnlessRecording ==
  [][ \A i \in Saps :
        /\ (SapLeaves(i, "check0") /\ state # "Recording") =>
             (sapPc'[i] = "state" /\ UNCHANGED pipeVars)
        /\ (SapLeaves(i, "state") /\ state # "Recording") =>
             (sapResult'[i] = "OkEmpty" /\ UNCHANGED pipeVars)
    ]_vars

\* C5, amended: with the cancellation flag clear, stop_and_process called
\* in a state other than Recording returns Ok with the empty text and
\* changes nothing; with the flag set it stores Idle, clears the flag and
\* returns Cancelled.
C5_NoOpUnlessRecordingOrCancelled ==
  [][ \A i \in Saps :
        /\ SapLeaves(i, "check0") =>
             /\ sapPc'[i] = IF cancelled THEN "unwind" ELSE "state"
             /\ UNCHANGED <<pipeVars, recVars>>
        /\ (SapLeaves(i, "state") /\ state # "Recording") =>
             /\ sapResult'[i] = "OkEmpty"
             /\ sapPc'[i] = "done"
             /\ UNCHANGED <<pipeVars, recVars>>
        /\ (SapLeaves(i, "unwind") /\ sawCancel[i].at = "check0") =>
             /\ state' = "Idle"
             /\ sapPc'[i] = "unwind2"
        /\ (SapLeaves(i, "unwind2") /\ sawCancel[i].at = "check0") =>
             /\ cancelled' = FALSE
             /\ sapResult'[i] = "Cancelled"
    ]_vars

\* C5 witness: after cancel_streaming has returned, a stop_and_process call
\* made in Idle has found the flag set and returned Cancelled.
C5_Witness ==
  /\ ctlRet.op = "cancel_streaming"
  /\ ctlRet.res = "Ok"
  /\ \E i \in Saps :
       /\ sawCancel[i] = [at |-> "check0", state |-> "Idle"]
       /\ sapResult[i] = "Cancelled"
  /\ state = "Idle"
  /\ ~cancelled

\* A step of the session-management task g that leaves the statement at pc.
MgmtLeaves(g, pc) == mgmtPc[g] = pc /\ mgmtPc'[g] # pc

\* C6: a Final received while the terminal-stop flag is false makes the
\* task open a new session, without a write to the state; a Final received
\* while the flag is true makes it open no session, store Idle and exit;
\* every Final received is forwarded once.
C6_FinalReconnectsUnlessStopped ==
  [][ \A g \in Gens :
        /\ (MgmtLeaves(g, "recv") /\ evQ[mgmtLoc[g].cur] # <<>>) =>
             fwd'[g] = Append(fwd[g], Head(evQ[mgmtLoc[g].cur]))
        /\ (MgmtLeaves(g, "final") /\ ~should_stop) =>
             (mgmtPc'[g] = "recheck" /\ state' = state)
        /\ (MgmtLeaves(g, "recheck") /\ mgmtLoc[g].ev = "Final") =>
             /\ state' = state
             /\ \/ mgmtPc'[g] = "publish" /\ nSess' = nSess + 1
                \/ mgmtPc'[g] = "to_idle" /\ ~should_stop
        /\ (MgmtLeaves(g, "final") /\ should_stop) =>
             (mgmtPc'[g] = "to_idle" /\ nSess' = nSess)
        /\ MgmtLeaves(g, "to_idle") =>
             (state' = "Idle" /\ mgmtPc'[g] = "exit" /\ nSess' = nSess)
    ]_vars

\* C7: once stop_streaming has returned from a call on a published session,
\* the provider has delivered a Final and every session-management task has
\* ended, the state is Idle: it is not left in Processing.
C7_StopStreamingRestsAtIdle ==
  ( /\ ctl.pc = "idle"
    /\ ctlRet.op = "stop_streaming"
    /\ ctlRet.res = "Ok"
    /\ ctlRet.sess # 0
    /\ \A g \in Gens : mgmtPc[g] \in {"none", "done"}
    /\ \E g \in Gens : fwd[g] # <<>> /\ fwd[g][Len(fwd[g])] = "Final" )
  => state = "Idle"

\* C8: when cancel_streaming returns on an active session the state is
\* Idle, the terminal-stop flag is set, capture is stopped, Cancel has been
\* enqueued to the session that was published (if its channel is open) and
\* the handle is empty; when streaming mode is off the call changes nothing.
C8_CancelStreamingClearsSession ==
  [][ /\ (ctl.pc = "x_idle" /\ ctl'.pc = "idle") =>
           /\ state' = "Idle"
           /\ should_stop'
           /\ recState' = "Idle"
           /\ ctl.sess # 0 =>
                \/ \E n \in DOMAIN ctrlQ'[ctl.sess] : ctrlQ'[ctl.sess][n] = CancelMsg
                \/ ~pumpAlive'[ctl.sess]
           /\ streaming_control_tx' = 0
      /\ (ctl.pc = "idle" /\ ctl'.pc = "idle" /\ ctlRet'.op = "cancel_streaming"
            /\ opsLeft' # opsLeft) =>
           UNCHANGED <<pipeVars, recVars, taskVars, sessVars>>
    ]_vars

\* C9: start_streaming goes on only when it reads Idle after the teardown,
\* and else returns busy and spawns nothing; when it returns Ok the state
\* is Recording, both flags are false, capture is running and the handle
\* published is the one session it opened.
C9_StartStreamingPostcondition ==
  [][ /\ (ctl.pc = "t_check" /\ ctl'.pc # "t_check") =>
           IF state = "Idle"
           THEN ctl'.pc = "t_reset"
           ELSE /\ ctl'.pc = "idle"
                /\ ctlRet'.res = "Busy"
                /\ UNCHANGED taskVars
      /\ (ctl.pc = "t_spawn" /\ ctl'.pc = "idle") =>
           /\ ctlRet'.res = "Ok"
           /\ state' = "Recording"
           /\ ~should_stop'
           /\ ~cancelled'
           /\ recState' = "Recording"
           /\ streaming_control_tx' = ctl.sess
    ]_vars

\* The places of the control channels where sample k has been enqueued.
EnqueuedAt(k) ==
  {p \in UNION {{<<s, n>> : n \in DOMAIN ctrlQ[s]} : s \in Sessions} :
     k \in Elems(ctrlQ[p[1]][p[2]].data)}

\* The audio-forwarding tasks that hold sample k in a chunk not yet sent.
HeldBy(k) == {g \in Gens : k \in Elems(audioChunk[g])}

\* C10: every sample the audio-forwarding task has drained is, once sent,
\* enqueued to exactly one control channel: none is enqueued twice and none
\* is discarded.
C10_DrainedChunkEnqueuedOnce ==
  /\ dropped = {}
  /\ \A k \in drained :
       Cardinality(EnqueuedAt(k)) + Cardinality(HeldBy(k)) = 1

\* The step of an audio-forwarding task g that sends its chunk.
AudioSends(g) == audioPc[g] = "send" /\ audioPc'[g] # "send"

\* C10, amended: every sample the audio-forwarding task has drained is in
\* exactly one place: still held by the task, enqueued once, or discarded;
\* the task enqueues a chunk to the session whose handle is published when
\* it sends, and discards it only when no handle is published then or that
\* session's control channel is closed.
C10_DrainedChunkEnqueuedAtMostOnce ==
  /\ [](\A k \in drained :
          Cardinality(EnqueuedAt(k)) + Cardinality(HeldBy(k))
            + (IF k \in dropped THEN 1 ELSE 0) = 1)
  /\ [][ \A g \in Gens :
           AudioSends(g) =>
             LET s == streaming_control_tx IN
               IF s # 0 /\ pumpAlive[s]
               THEN /\ ctrlQ' = [ctrlQ EXCEPT ![s] = Append(@, Audio(audioChunk[g]))]
                    /\ dropped' = dropped
               ELSE /\ ctrlQ' = ctrlQ
                    /\ dropped' = dropped \cup Elems(audioChunk[g])
       ]_vars

\* C10 witness: after a reconnect, a drained sample has been enqueued to the
\* second session, and to it alone.
C10_Witness ==
  /\ \E g \in Gens : mgmtPc[g] = "recv" /\ mgmtLoc[g].cur = 2 /\ "Final" \in Elems(fwd[g])
  /\ streaming_control_tx = 2
  /\ \E k \in drained : EnqueuedAt(k) = {<<2, 1>>}
  /\ dropped = {}

\* A step in which the session-management task g takes an event from the
\* event channel of its current session.
MgmtReceives(g) ==
  /\ mgmtPc[g] = "recv"
  /\ evQ[mgmtLoc[g].cur] # <<>>
  /\ Len(evQ'[mgmtLoc[g].cur]) < Len(evQ[mgmtLoc[g].cur])

\* What the task does next after forwarding event e.
C11_After(e) ==
  CASE e = "Partial" -> "recv" [] e = "Final" -> "final" [] e = "Error" -> "to_idle"

\* C11: every event a session has produced is forwarded, in order: a
\* receive takes the oldest event of the session and nothing else from its
\* channel, appends it to the external stream, and only then does the task
\* act on it; nothing else writes to the external stream.
C11_EventsForwardedExactly ==
  [][ \A g \in Gens :
        /\ MgmtReceives(g) =>
             LET s == mgmtLoc[g].cur IN
               /\ fwd'[g] = Append(fwd[g], Head(evQ[s]))
               /\ evQ'[s] = Tail(evQ[s])
               /\ mgmtPc'[g] = C11_After(Head(evQ[s]))
               /\ UNCHANGED <<pipeVars, nSess>>
        /\ fwd'[g] # fwd[g] => MgmtReceives(g)
    ]_vars

\* C11, amended: while the consumer holds the receiver, the events
\* forwarded from a session are, in order, the events it produced up to and
\* including its first Final or Error; each is appended to the external
\* stream in the step that receives it, before the task acts on it; what
\* the session has queued behind a Final or an Error is never read.  Once
\* the consumer has dropped the receiver, the next event received is
\* discarded with the rest and the task returns.
C11_EventsForwardedUpToFinal ==
  [][ \A g \in Gens :
        /\ MgmtReceives(g) =>
             LET s == mgmtLoc[g].cur IN
               /\ fwd'[g] = IF fwdOpen[g] THEN Append(fwd[g], Head(evQ[s])) ELSE fwd[g]
               /\ evQ'[s] = IF Head(evQ[s]) = "Partial" /\ fwdOpen[g]
                            THEN Tail(evQ[s]) ELSE <<>>
               /\ mgmtPc'[g] = IF fwdOpen[g] THEN C11_After(Head(evQ[s])) ELSE "done"
               /\ UNCHANGED <<pipeVars, nSess>>
        /\ fwd'[g] # fwd[g] => MgmtReceives(g)
    ]_vars

\* C11 witness: a Partial and then a Final of the first session have been
\* forwarded in that order, and the task has not yet acted on the Final.
C11_Witness ==
  \E g \in Gens :
    /\ fwd[g] = <<"Partial", "Final">>
    /\ mgmtPc[g] = "final"
    /\ mgmtLoc[g].cur = 1
    /\ state = "Recording"

C13_StartFailsWithoutDevice ==
  (worker.err \in {"NoInputDevice", "Device", "Stream"} /\ recRet.op = "start")
    => (recRet.res = "Err" /\ recState = "Idle")

\* A step in which AudioRecorder::stop() is called.
RecStopCalled ==
  /\ recCall.pc = "idle"
  /\ recCall'.n # recCall.n
  /\ recCall'.pc = "join" \/ recRet'.op = "stop"

\* C14: AudioRecorder::stop() called while the recorder is not recording
\* returns an empty sample vector, sends no command, joins no thread and
\* leaves the recorder state Idle; it returns in the step of the call,
\* without waiting for anything.
C14_StopWhenNotRecording ==
  [][(RecStopCalled /\ recState # "Recording") =>
       /\ recRet' = [op |-> "stop", res |-> "Ok", data |-> <<>>]
       /\ recCall'.pc = "idle"
       /\ recState' = "Idle"
       /\ UNCHANGED <<command_tx, commands, worker_handle, worker, buffer>>]_vars

\* stop() has returned an empty vector a second time, after a recording
\* that was started, captured samples and was stopped.
C14_Witness ==
  /\ recCall = [pc |-> "idle", n |-> 3]
  /\ recRet = [op |-> "stop", res |-> "Ok", data |-> <<>>]
  /\ recState = "Idle"
  /\ worker.pc = "ended"
  /\ buffer # <<>>

\* C15: for any resampling ratio and any N input frames, split into
\* callback chunks in any way, the resampler has emitted floor(N/ratio) or
\* ceil(N/ratio) output samples, and the accumulator is in [0, 1) after
\* every input frame.
C15_ResamplerWithinOneSample ==
  LET source == resampler.rate[1]
      exact == resampler.frames * resampler.rate[2]
  IN /\ resampler.emitted \in {exact \div source, (exact + source - 1) \div source}
     /\ resampler.acc.num >= 0
     /\ ~AccAtLeastOne(resampler.acc, source)

\* The peak absolute amplitude of the samples stop_and_process collected.
C16_Peak(i) ==
  LET mags == {abs(sapLoc[i].amps[k]) : k \in DOMAIN sapLoc[i].amps}
  IN CHOOSE m \in mags : \A n \in mags : n <= m

\* C16: for a non-empty captured buffer, stop_and_process returns the
\* permission-style error when the peak absolute amplitude is below 0.001,
\* the too-quiet error when it is at least 0.001 and below 0.05, and
\* proceeds towards the transcription client when it is at least 0.05; in
\* both error cases the transcription client is not invoked and the state
\* is Idle.
C16_AmplitudeGate ==
  [][\A i \in Saps :
       (SapLeaves(i, "gate") /\ sapLoc[i].samples # <<>>) =>
         IF C16_Peak(i) < 10
         THEN /\ sapResult'[i] = "ErrSilent" /\ sapPc'[i] = "done"
              /\ state' = "Idle" /\ recognized' = recognized
         ELSE IF C16_Peak(i) < 500
         THEN /\ sapResult'[i] = "ErrQuiet" /\ sapPc'[i] = "done"
              /\ state' = "Idle" /\ recognized' = recognized
         ELSE /\ sapPc'[i] = "encode" /\ sapResult'[i] = sapResult[i]
              /\ sapLoc'[i] = sapLoc[i]]_vars

\* A call has passed the gate with a buffer whose only sample is -0.3.
C16_Witness ==
  /\ sapPc[1] = "encode"
  /\ sapLoc[1].samples # <<>>
  /\ sapLoc[1].amps = <<-3000>>
  /\ sapResult[1] = "none"
  /\ state = "Processing"

\* round(clamp(x, -1, 1) * 32767) for x in ten-thousandths, halves away
\* from zero.
C17_Round(x) ==
  LET c == IF x < -10000 THEN -10000 ELSE IF x > 10000 THEN 10000 ELSE x
      n == IF c < 0 THEN 0 - c ELSE c
      r == (2 * n * 32767 + 10000) \div 20000
  IN IF c < 0 THEN 0 - r ELSE r

\* The signed 16-bit value of two little-endian bytes.
C17_FromLeBytes(lo, hi) ==
  LET u == hi * 256 + lo IN IF u >= 32768 THEN u - 65536 ELSE u

\* C17: both audio encoders quantize every sample x to the signed 16-bit
\* value round(clamp(x, -1, 1) * 32767), also for x outside [-1, 1] and for
\* x whose scaled product has a fractional part of one half or more.
C17_EncodersRound ==
  /\ "pcm" \in encOut.called =>
       /\ Len(encOut.pcm) = 2 * Len(encIn)
       /\ \A k \in DOMAIN encIn :
            C17_FromLeBytes(encOut.pcm[2 * k - 1], encOut.pcm[2 * k]) = C17_Round(encIn[k])
  /\ "wav" \in encOut.called =>
       /\ Len(encOut.wav) = Len(encIn)
       /\ \A k \in DOMAIN encIn : encOut.wav[k] = C17_Round(encIn[k])

\* The ASR provider identifier is unknown, or the section of the provider
\* it names is missing.
C18_AsrBad(c) ==
  \/ c.provider \notin {"Qwen", "DashScope", "OpenAIWhisper", "FunAsr"}
  \/ c.provider = "Qwen" /\ ~c.qwen
  \/ c.provider = "DashScope" /\ ~c.dashscope
  \/ c.provider = "OpenAIWhisper" /\ ~c.openai
  \/ c.provider = "FunAsr" /\ ~c.funasr

\* The same for the refinement provider.
C18_LlmBad(c) ==
  \/ c.provider \notin {"DashScope", "OpenAI", "Ollama"}
  \/ c.provider = "DashScope" /\ ~c.dashscope
  \/ c.provider = "OpenAI" /\ ~c.openai
  \/ c.provider = "Ollama" /\ ~c.ollama

\* The two ASR factories return the Config error, and no client, for an
\* unknown identifier or a missing section.
C18_AsrFactories ==
  /\ (facOut.asr # "not called" /\ C18_AsrBad(facIn.asr)) => facOut.asr = "Config"
  /\ (facOut.streaming # "not called" /\ C18_AsrBad(facIn.asr))
       => facOut.streaming = "Config"

\* C18: the provider factories return a Configuration error, without
\* constructing a client, whenever the provider identifier is unknown or
\* the selected provider's own configuration section is missing (batch
\* ASR, streaming ASR and refinement factories alike).
C18_FactoriesRejectBadConfig ==
  /\ C18_AsrFactories
  /\ (facOut.llm # "not called" /\ C18_LlmBad(facIn.llm)) => facOut.llm = "Config"

\* C18, amended: the refinement factory does so when refinement is enabled;
\* when it is disabled it returns no client and no error, whatever the
\* identifier and the sections.
C18_FactoriesRejectBadConfigWhenEnabled ==
  /\ C18_AsrFactories
  /\ (facOut.llm # "not called" /\ facIn.llm.enabled /\ C18_LlmBad(facIn.llm))
       => facOut.llm = "Config"
  /\ (facOut.llm # "not called" /\ ~facIn.llm.enabled) => facOut.llm = "None"

\* All three factories have refused: batch and streaming ASR a known
\* provider whose section is missing, refinement an enabled unknown one.
C18_Witness ==
  /\ facIn.asr.provider = "FunAsr" /\ ~facIn.asr.funasr /\ facIn.asr.qwen
  /\ facIn.llm.enabled /\ facIn.llm.provider = "Unknown" /\ facIn.llm.ollama
  /\ facOut = [asr |-> "Config", streaming |-> "Config", llm |-> "Config"]

\* C19: for every vhisper_stop_recording call with a non-null handle, the
\* result callback is invoked exactly once, with exactly one of its text
\* and error arguments non-null: text (possibly empty) when
\* stop_and_process succeeded, error when it failed or was cancelled.
C19_CallbackExactlyOnce ==
  \A i \in Saps :
    /\ Len(callbacks[i]) = IF sapPc[i] = "done" THEN 1 ELSE 0
    /\ \A k \in DOMAIN callbacks[i] :
         LET c == callbacks[i][k]
         IN /\ (c.text = <<>>) # (c.error = <<>>)
            /\ c.error = <<>> <=> sapResult[i] \in {"OkEmpty", "OkText", "OkRefined"}

\* Both calls have returned and the callback was invoked for each: one
\* with a text, the other, cancelled, with an error.
C19_Witness ==
  \E i, j \in Saps :
    /\ sapPc[i] = "done" /\ sapPc[j] = "done"
    /\ sapResult[i] = "OkText" /\ callbacks[i] = <<[text |-> <<"OkText">>, error |-> <<>>]>>
    /\ sapResult[j] = "Cancelled"
    /\ callbacks[j] = <<[text |-> <<>>, error |-> <<"Cancelled">>]>>

\* C20: every change of the pipeline state is one of Idle to Recording,
\* Recording to Processing, Processing to Idle, or Recording to Idle; the
\* state never moves Idle to Processing or Processing to Recording.
C20_StateTransitions ==
  [][state' # state =>
       <<state, state'>> \in {<<"Idle", "Recording">>, <<"Recording", "Processing">>,
                              <<"Processing", "Idle">>, <<"Recording", "Idle">>}]_vars

\* A step of stop_streaming between reading the handle and releasing it.
C21_StopSends(s) ==
  \/ ctl.pc = "p_drain" /\ streaming_control_tx = s /\ ctl'.pc = "p_commit"
  \/ ctl.pc = "p_commit" /\ ctl.sess = s /\ ctl'.pc = "p_store"

\* C21: stop_streaming enqueues to the session that is active at that
\* moment at most one trailing Audio chunk (the remaining buffered samples,
\* only if non-empty) followed by exactly one Commit, and no Audio message
\* from any task is enqueued to that session after the Commit.
C21_TrailingAudioThenCommit ==
  [][\A s \in Sessions :
       /\ (C21_StopSends(s) /\ ctl.pc = "p_drain") =>
            \/ ctrlQ'[s] = ctrlQ[s]
            \/ buffer # <<>> /\ ctrlQ'[s] = Append(ctrlQ[s], Audio(buffer))
       /\ (C21_StopSends(s) /\ ctl.pc = "p_commit" /\ pumpAlive[s]) =>
            ctrlQ'[s] = Append(ctrlQ[s], Commit)
       /\ (ctrlQ'[s] # ctrlQ[s] /\ \E k \in DOMAIN ctrlQ[s] : ctrlQ[s][k].t = "Commit") =>
            ctrlQ'[s][Len(ctrlQ'[s])].t # "Audio"]_vars

\* C22: when the session-management task receives a Final, the value of
\* the terminal-stop flag read at that moment alone decides the outcome: if
\* it read true, no session is opened; if it read false, the task goes on
\* to open a new session even when the flag has become true by then (it is
\* not stopped by the flag a second time).
C22_FinalReadDecides ==
  [][\A g \in Gens :
       /\ (MgmtLeaves(g, "final") /\ should_stop) =>
            mgmtPc'[g] = "to_idle" /\ nSess' = nSess
       /\ (MgmtLeaves(g, "final") /\ ~should_stop) => mgmtPc'[g] = "recheck"
       /\ (MgmtLeaves(g, "recheck") /\ mgmtLoc[g].ev = "Final" /\ should_stop) =>
            mgmtPc'[g] = "publish" /\ nSess' = nSess + 1]_vars

\* The session-management task g receives an Error and can forward it.
C23_ReceivesError(g) ==
  /\ MgmtReceives(g)
  /\ Head(evQ[mgmtLoc[g].cur]) = "Error"
  /\ fwdOpen[g]

C24_ChannelClosed(g) ==
  MgmtLeaves(g, "recv") /\ evQ[mgmtLoc[g].cur] = <<>>

\* C24: when the current session's event channel closes without a Final or
\* Error having been received, the session-management task exits with
\* state Idle if the terminal-stop flag is set, and otherwise opens a new
\* session exactly as after a Final: the open succeeds and the session is
\* about to be published, or it fails and the task ends.
C24_ChannelCloseReconnects ==
  [][\A g \in Gens :
       /\ C24_ChannelClosed(g) =>
            /\ mgmtPc'[g] = "recheck" /\ mgmtLoc'[g].ev = "none"
            /\ UNCHANGED <<fwd, state, nSess, streaming_control_tx>>
       /\ (MgmtLeaves(g, "recheck") /\ should_stop) =>
            mgmtPc'[g] = "to_idle" /\ nSess' = nSess
       /\ (MgmtLeaves(g, "recheck") /\ ~should_stop) =>
            \/ /\ mgmtPc'[g] = "publish"
               /\ nSess' = nSess + 1 /\ mgmtLoc'[g].new = nSess + 1 /\ pumpAlive'[nSess + 1]
               /\ UNCHANGED <<state, streaming_control_tx>>
            \/ mgmtPc'[g] = "to_idle" /\ nSess' = nSess
       /\ MgmtLeaves(g, "to_idle") => state' = "Idle" /\ mgmtPc'[g] = "exit"
       /\ MgmtLeaves(g, "publish") =>
            /\ mgmtPc'[g] = "recv" /\ mgmtLoc'[g].cur = mgmtLoc[g].new
            /\ streaming_control_tx' = mgmtLoc[g].new]_vars

\* The first session's channel closed with nothing forwarded and the flag
\* clear: the task now receives from a second session, which is published.
C24_Witness ==
  /\ fwd[1] = <<>>
  /\ ~pumpAlive[1]
  /\ mgmtPc[1] = "recv" /\ mgmtLoc[1].cur = 2
  /\ streaming_control_tx = 2
  /\ ~should_stop
  /\ state = "Recording"

\* Session s has been opened: its connection was made and the provider
\* confirmed it (sessions are numbered as their open returns).
C25_Confirmed(s) == s \in 1..nSess

\* C25: during a reconnect the shared session handle is replaced by the
\* new session's control sink in a single exclusive write, and only after
\* that session's open (including the provider's confirmation) has
\* succeeded; the holder contains no handle or that of one confirmed
\* session, and audio is never enqueued to an unconfirmed session.
C25_HandleOfConfirmedSession ==
  /\ [](/\ streaming_control_tx # 0 => C25_Confirmed(streaming_control_tx)
        /\ \A s \in Sessions : ctrlQ[s] # <<>> => C25_Confirmed(s))
  /\ [][\A g \in Gens :
          /\ MgmtLeaves(g, "publish") =>
               /\ C25_Confirmed(mgmtLoc[g].new)
               /\ ~control_tx_read_locked
               /\ streaming_control_tx' = mgmtLoc[g].new
               /\ UNCHANGED <<nSess, ctrlQ>>
          /\ (mgmtPc[g] \in {"recheck", "publish"} /\ mgmtPc'[g] = mgmtPc[g]) =>
               \A s \in Sessions :
                 ctrlQ'[s] # ctrlQ[s] => (C25_Confirmed(s) /\ s # mgmtLoc[g].new)]_vars

\* After a reconnect the second session holds the captured audio and is the
\* one published; the first received none.
C25_Witness ==
  /\ mgmtPc[1] = "recv" /\ mgmtLoc[1].cur = 2
  /\ streaming_control_tx = 2
  /\ ctrlQ[1] = <<>>
  /\ ctrlQ[2] = <<Audio(<<1>>)>>

\* The pump of session s forwards event e.
C26_Forwards(s, e) == evQ'[s] = Append(evQ[s], e)

\* C26: the provider session's pump terminates after an explicit Cancel,
\* after forwarding a Final, after forwarding an Error, or when the
\* connection closes; once it has forwarded a Final or an Error it is no
\* longer running, and a pump that is not running forwards no event and
\* takes no control message.
C26_PumpEndsOnTerminalEvent ==
  [][\A s \in Sessions :
       /\ (C26_Forwards(s, "Final") \/ C26_Forwards(s, "Error")) => ~pumpAlive'[s]
       /\ ~pumpAlive[s] =>
            Len(evQ'[s]) <= Len(evQ[s]) /\ ctrlQ'[s] = ctrlQ[s]]_vars


\* The messages before the n-th that belong to its utterance: the text
\* messages with a non-empty confirmed text since the pump started or since
\* the completed message before the n-th.
C27_Confirmed(n) ==
  {j \in 1..(n - 1) :
     /\ pumpLog[j].type = "text"
     /\ pumpLog[j].event.text # ""
     /\ \A k \in j..(n - 1) : pumpLog[k].type # "completed"}

C27_LastConfirmed(n) ==
  IF C27_Confirmed(n) = {} THEN ""
  ELSE pumpLog[CHOOSE j \in C27_Confirmed(n) : \A k \in C27_Confirmed(n) : k <= j].event.text

\* C27 as stated: the text of a Final is the transcript of the completed
\* message when it carries one, and otherwise the confirmed text of the most
\* recent Partial of the same utterance that had a non-empty confirmed text,
\* empty if there was none.
C27_FinalTextIsTranscriptOrAccumulated ==
  \A n \in 1..Len(pumpLog) :
    pumpLog[n].type = "completed" =>
      pumpLog[n].event.text =
        IF pumpLog[n].transcript # <<>> THEN pumpLog[n].transcript[1]
        ELSE C27_LastConfirmed(n)

\* C27 as the pump computes it: the text of a Final is the transcript of the
\* completed message when it carries one, otherwise the text field of the
\* completed message when it carries one, and otherwise the confirmed text of
\* the most recent Partial of the same utterance that had a non-empty
\* confirmed text, empty if there was none; a Partial from before an earlier
\* Final is never used.
C27_FinalTextIsTranscriptOrTextOrAccumulated ==
  \A n \in 1..Len(pumpLog) :
    pumpLog[n].type = "completed" =>
      pumpLog[n].event.text =
        IF pumpLog[n].transcript # <<>> THEN pumpLog[n].transcript[1]
        ELSE IF pumpLog[n].text # <<>> THEN pumpLog[n].text[1]
        ELSE C27_LastConfirmed(n)

\* A Partial "a", a completed message without transcript whose own text is
\* "b", then a completed message carrying nothing: the Finals are "b" and "".
C27_Witness ==
  /\ Len(pumpLog) = 3
  /\ pumpLog[1].type = "text" /\ pumpLog[1].event.text = "a"
  /\ pumpLog[2].type = "completed" /\ pumpLog[2].transcript = <<>>
  /\ pumpLog[2].text = <<"b">> /\ pumpLog[2].event.text = "b"
  /\ pumpLog[3].type = "completed" /\ pumpLog[3].transcript = <<>>
  /\ pumpLog[3].text = <<>> /\ pumpLog[3].event.text = ""


\* The cancellation checkpoints of stop_and_process (156, 182, 252, 271).
C28_Checkpoints == {"check0", "chk1", "chk2", "chk3"}

\* C28: a checkpoint of stop_and_process that loads the cancellation flag
\* set goes on to store Idle, then to store the flag false and return
\* Cancelled; a call that has observed the flag is only ever at these
\* statements or returned, hands nothing to recognize and returns nothing
\* but Cancelled.
C28_CheckpointUnwinds ==
  [][ \A i \in Saps :
        /\ \A at \in C28_Checkpoints :
             (SapLeaves(i, at) /\ cancelled) =>
               (sapPc'[i] = "unwind" /\ sawCancel'[i].at = at)
        /\ SapLeaves(i, "unwind") =>
             (state' = "Idle" /\ sapPc'[i] = "unwind2")
        /\ SapLeaves(i, "unwind2") =>
             (cancelled' = FALSE /\ sapPc'[i] = "done")
        /\ sawCancel[i].at \in C28_Checkpoints =>
             /\ sapPc'[i] \in {"unwind", "unwind2", "done"}
             /\ sapResult'[i] \in {"none", "Cancelled"}
             /\ (sapPc'[i] # sapPc[i] => recognized' = recognized)
    ]_vars

\* C28 witness: a call found the flag set at the checkpoint after recognize
\* and has returned Cancelled, the state Idle and the flag clear.
C28_Witness ==
  /\ \E i \in Saps :
       /\ sawCancel[i].at = "chk3"
       /\ sapResult[i] = "Cancelled"
  /\ state = "Idle"
  /\ ~cancelled


\* C29: a stop_and_process call whose recognize was in flight when cancel()
\* set the flag lets recognize complete, then goes to no refinement step and
\* returns Cancelled with the state Idle.
C29_CancelDuringRecognizeDiscards ==
  [][ \A i \in Saps :
        cancelAt[i] = "asr" =>
          /\ (SapLeaves(i, "asr") => sapPc'[i] = "chk3")
          /\ sapPc'[i] \notin {"llm", "refine", "finish"}
          /\ (sapResult[i] = "none" /\ sapResult'[i] # "none") =>
               (sapResult'[i] = "Cancelled" /\ state' = "Idle")
    ]_vars


\* C30: whenever the state is Idle, no operation is part-way through and no
\* stop_and_process call is between its spawning and its return, the
\* cancellation flag is false.
C30_IdleMeansNotCancelled ==
  (/\ state = "Idle"
   /\ ctl.pc = "idle"
   /\ \A i \in Saps : sapPc[i] \in {"idle", "done"}) => ~cancelled


\* C31: no thread holds two locks at once.
C31_OneLockAtATime ==
  \A t \in DOMAIN LockProgram : Len(Held(t, lockPc[t])) <= 1

\* The order in which the locks are taken.
C31_Rank(l) ==
  CASE l = "handle" -> 1
    [] l = "recorder" -> 2
    [] l = "state" -> 3
    [] l = "buffer" -> 4
    [] l = "accumulator" -> 5

\* C31 as the code has it: a thread holds up to three locks at once, always
\* taken in the order session handle, recorder, recorder state or capture
\* buffer, accumulator, and the recorder state's mutex and the capture
\* buffer's mutex are never held together.
C31_LocksTakenInOrder ==
  \A t \in DOMAIN LockProgram :
    LET held == Held(t, lockPc[t])
    IN /\ Len(held) <= 3
       /\ \A j, k \in DOMAIN held :
            j < k => C31_Rank(held[j][1]) < C31_Rank(held[k][1])
       /\ ~\E j, k \in DOMAIN held :
            held[j][1] = "state" /\ held[k][1] = "buffer"

\* C31 witness: stop_streaming holds the handle's read guard, the
\* recorder's read guard and the buffer's mutex, while the input callback
\* waits for the buffer with nothing held.
C31_Witness ==
  /\ Len(Held("stop_streaming", lockPc["stop_streaming"])) = 3
  /\ Held("stop_streaming", lockPc["stop_streaming"])[3][1] = "buffer"
  /\ lockPc["callback"] = 0
  /\ Len(Held("audio", lockPc["audio"])) = 1


\* C32: whenever a session-management task terminates, the pipeline state
\* is Idle and the streaming-mode flag is false.
C32_MgmtExitLeavesIdle ==
  [][ \A g \in Gens :
        (mgmtPc[g] # "done" /\ mgmtPc'[g] = "done") =>
          (state' = "Idle" /\ ~streaming_mode')
    ]_vars


\* The tasks of start_streaming call g that have been spawned and have not
\* returned.
C33_AudioAlive(g) == audioPc[g] \notin {"none", "done"}
C33_MgmtAlive(g) == mgmtPc[g] \notin {"none", "done"}

\* C33: at most one audio-forwarding task and at most one
\* session-management task are alive: when the tasks of a later
\* start_streaming call exist, those of every earlier call have returned.
C33_OneTaskOfEachKind ==
  \A g, h \in Gens :
    g < h =>
      /\ ~(C33_AudioAlive(g) /\ C33_AudioAlive(h))
      /\ ~(C33_MgmtAlive(g) /\ C33_MgmtAlive(h))


\* The session-management task of call g belongs to a cancelled session
\* that a new one has replaced: cancel_streaming has sent Cancel to the
\* session the task is reading, and a later start_streaming call has
\* spawned its tasks.
C34_Replaced(g) ==
  /\ gen > g
  /\ mgmtLoc[g].cur # 0
  /\ \E k \in DOMAIN ctrlQ[mgmtLoc[g].cur] : ctrlQ[mgmtLoc[g].cur][k] = CancelMsg

\* C34: once cancel_streaming has returned and a new session has been
\* started, the tasks of the cancelled session write neither the state nor
\* the streaming-mode flag nor the shared handle.
C34_CancelledTasksStopWriting ==
  [][ \A g \in Gens :
        C34_Replaced(g) =>
          ~(\/ MgmtLeaves(g, "to_idle")
            \/ MgmtLeaves(g, "exit")
            \/ MgmtLeaves(g, "publish"))
    ]_vars


\* C35: while a stop_and_process call is between its store of Processing
\* and its return, the state is Processing.
C35_ProcessingHeld ==
  (\E i \in Saps : InFlight(i)) => state = "Processing"


\* The failures of start_streaming after its busy check.
C36_Failures == {"ErrConfig", "ErrAsr"}

\* C36: a start_streaming call that fails while creating or opening its
\* session returns with the state Idle, the streaming-mode flag false and
\* no handle published, and a stop_streaming call made next does nothing
\* and leaves the state Idle.
C36_FailedStartLeavesNothing ==
  [][ /\ (ctl.pc = "t_open" /\ ctl'.pc = "idle" /\ ctlRet'.res \in C36_Failures) =>
           (state' = "Idle" /\ ~streaming_mode' /\ streaming_control_tx' = 0)
      /\ (/\ ctl.pc = "idle"
          /\ ctlRet.op = "start_streaming" /\ ctlRet.res \in C36_Failures
          /\ opsLeft' # opsLeft
          /\ (ctlRet'.op = "stop_streaming" \/ ctl'.pc = "p_drain")) =>
           (ctlRet'.res = "Noop" /\ state' = "Idle")
    ]_vars


\* C37: a start_streaming call that is going to return the busy error (it
\* is made with the state not Idle while no stop_and_process call is
\* running, so nothing changes the state before the call reads it) leaves
\* the capture engine, the terminal-stop flag and the published handle as
\* they were.
C37_BusyStartChangesNothing ==
  [][ (/\ ctl.pc = "idle" /\ ctl'.pc = "t_check"
       /\ state # "Idle"
       /\ \A i \in Saps : sapPc[i] \in {"idle", "done"}) =>
        /\ recState' = recState
        /\ buffer' = buffer
        /\ should_stop' = should_stop
        /\ streaming_control_tx' = streaming_control_tx
    ]_vars


\* The places in the calls made where the call op for press k stands.
C38_Places(op, k) == {n \in DOMAIN hkCalls : hkCalls[n] = <<op, k>>}

\* C38: the start_recording call for a press is made before the
\* stop_and_process call for its release, and a press with its release
\* causes one call of each, no more.
C38_StartBeforeStop ==
  \A k \in 1..MaxPress :
    /\ Cardinality(C38_Places("start_recording", k)) <= 1
    /\ Cardinality(C38_Places("stop_and_process", k)) <= 1
    /\ (hkThreads[k].start = "done") = (C38_Places("start_recording", k) # {})
    /\ (hkThreads[k].stop = "done") = (C38_Places("stop_and_process", k) # {})
    /\ \A n \in C38_Places("stop_and_process", k) :
         \E m \in C38_Places("start_recording", k) : m < n

====
